---------------------------- MODULE Spec2Model ----------------------------
(***************************************************************************)
(* BIP78 PayJoin library: the receiver's phased PSBT state machine         *)
(* (bip78/src/state.rs), the receiver's request intake                     *)
(* (bip78/src/receiver/mod.rs) and the sender's request builder and        *)
(* proposal validator (bip78/src/sender/mod.rs).                           *)
(*                                                                         *)
(* Eleven specifications share the variables:                              *)
(*   SpecState     the PsbtState<S> phase machine of state.rs              *)
(*   SpecObserve   script_pubkeys() and outpoints() of state.rs            *)
(*   SpecReceiver  UncheckedProposal::from_request                         *)
(*   SpecCheck     UncheckedProposal::check                                *)
(*   SpecCarry     one PSBT through the phases and through check           *)
(*   SpecSeen      check driven by the BitcoindChecker of the tests        *)
(*   SpecUri       Uri::try_from (bip78/src/uri.rs)                        *)
(*   SpecCreate    from_psbt_and_uri (Uri::create_request)                 *)
(*   SpecInputs    process_response on proposals with one varied input     *)
(*   SpecFees      process_response on originals of any fee                *)
(*   Spec          create_request followed by Context::process_response    *)
(***************************************************************************)
EXTENDS Integers, Sequences, FiniteSets, TLC

VARIABLES
    st,          \* state.rs: one PsbtState<S> value per exchange
    call,        \* state.rs: the last try_next call made on each value
    observed,    \* state.rs: what script_pubkeys() or outpoints() last returned on each value
    request,     \* receiver: the inbound HTTP request (headers and body)
    reqResult,   \* receiver: what from_request returned
    bytesRead,   \* receiver: bytes of the body consumed by from_request
    original,    \* sender: the arguments of create_request (psbt, uri, params)
    created,     \* sender: what from_psbt_and_uri returned (Request and Context)
    response,    \* sender: the response handed to process_response
    outcome,     \* sender: what process_response returned
    unchecked,   \* receiver: an UncheckedProposal and the answers of its Checks
    checked,     \* receiver: what UncheckedProposal::check returned
    checker,     \* receiver: the Checks implementation (its seen set, the calls made on it)
    uriStr,      \* uri: the text handed to Uri::try_from
    uriResult    \* uri: what Uri::try_from returned

vars == <<st, call, observed, request, reqResult, bytesRead, original, created, response, outcome,
          unchecked, checked, checker, uriStr, uriResult>>

stateVars == <<st, call, observed>>
receiverVars == <<request, reqResult, bytesRead>>
senderVars == <<original, created, response, outcome>>
checkVars == <<unchecked, checked, checker>>
uriVars == <<uriStr, uriResult>>

None == "None"

\* Option<T>: the empty sequence, or a sequence holding the one value.
NoneOpt == <<>>
Some(x) == <<x>>
IsSome(o) == o # <<>>
Unwrap(o) == o[1]

(***************************************************************************)
(* Generic helpers.                                                        *)
(***************************************************************************)
RECURSIVE SumSeq(_)
SumSeq(s) == IF s = <<>> THEN 0 ELSE Head(s) + SumSeq(Tail(s))

Min(a, b) == IF a <= b THEN a ELSE b

SeqsUpTo(S, n) == UNION {[1..k -> S] : k \in 0..n}

IsPrefix(s, t) == Len(s) <= Len(t) /\ \A i \in 1..Len(s) : s[i] = t[i]

\* s is a subsequence of t: the elements of s occur in t in the same order.
RECURSIVE IsSubseq(_, _)
IsSubseq(s, t) ==
    IF s = <<>> THEN TRUE
    ELSE IF t = <<>> THEN FALSE
    ELSE IF Head(s) = Head(t) THEN IsSubseq(Tail(s), Tail(t))
    ELSE IsSubseq(s, Tail(t))

(***************************************************************************)
(* state.rs: PsbtState<S>.                                                 *)
(***************************************************************************)
MaxCount == 1

\* Two independent exchanges, each owning its PsbtState value.
Exchanges == {"a", "b"}

\* The chain of phases of the receiver flow (state.rs:186-193).
PhaseOrder == <<"Validated", "MaybeUnbroadcastable", "MaybeInputsOwned",
                "MaybePrevoutsSeen", "Proposal">>

\* The phases whose state struct carries a guard flag (state.rs:35-50).
GuardedPhases == {"MaybeUnbroadcastable", "MaybeInputsOwned", "MaybePrevoutsSeen"}

PhaseIndex(p) == CHOOSE i \in 1..Len(PhaseOrder) : PhaseOrder[i] = p

\* A conversion that lets MaybeInputsOwned go straight to Proposal.
SuccessorSkipping(p) ==
    IF p = "MaybeInputsOwned" THEN "Proposal" ELSE PhaseOrder[PhaseIndex(p) + 1]

\* The phase a TryFrom impl converts phase p into.
Successor(p) == PhaseOrder[PhaseIndex(p) + 1]

\* The counts of a PartiallySignedTransaction that try_from compares.
RawPsbts == [tx_ins : 0..MaxCount, psbt_ins : 0..MaxCount,
             tx_outs : 0..MaxCount, psbt_outs : 0..MaxCount]

NoCall == [from |-> None, flag |-> FALSE, result |-> None]

\* A conversion that compares the output counts first.
TryFromPsbtOutputsFirst(psbt) ==
    IF psbt.psbt_outs # psbt.tx_outs THEN "UnequalOutputCounts"
    ELSE IF psbt.psbt_ins # psbt.tx_ins THEN "UnequalInputCounts"
    ELSE "Ok"

\* impl TryFrom<PartiallySignedTransaction> for PsbtState<Validated>
TryFromPsbt(psbt) ==
    IF psbt.psbt_ins # psbt.tx_ins THEN "UnequalInputCounts"
    ELSE IF psbt.psbt_outs # psbt.tx_outs THEN "UnequalOutputCounts"
    ELSE "Ok"

\* A conversion that does not look at the flag.
TryFromGuardIgnored(value) == "Ok"

\* impl TryFrom<PsbtState<P>> for PsbtState<Successor(P)>, for the three
\* guarded phases: Ok exactly when the phase's flag is set.
TryFromState(value) == IF value.flag THEN "Ok" ELSE "Todo"

\* impl TryNext<Validated> for PartiallySignedTransaction
TryNextValidated(e) ==
    /\ st[e].phase = "Psbt"
    /\ LET r == TryFromPsbt(st[e].psbt) IN
         /\ st' = [st EXCEPT ![e] =
                     IF r = "Ok"
                     THEN [@ EXCEPT !.phase = "Validated", !.trail = <<"Validated">>]
                     ELSE [@ EXCEPT !.phase = "Dropped"]]
         /\ call' = [call EXCEPT ![e] = [from |-> "Psbt", flag |-> FALSE, result |-> r]]
    /\ UNCHANGED <<observed, receiverVars, senderVars, checkVars, uriVars>>

\* impl From<PsbtState<Validated>> for PsbtState<MaybeUnbroadcastable>
FromValidated(e) ==
    /\ st[e].phase = "Validated"
    /\ st' = [st EXCEPT ![e] = [@ EXCEPT !.phase = "MaybeUnbroadcastable",
                                         !.flag = FALSE,
                                         !.trail = Append(@, "MaybeUnbroadcastable")]]
    /\ UNCHANGED <<call, observed, receiverVars, senderVars, checkVars, uriVars>>

\* A flag that is one cell shared by every value in a guarded phase.
SetFlagShared(e) ==
    /\ st[e].phase \in GuardedPhases
    /\ ~st[e].flag
    /\ st' = [f \in Exchanges |->
                IF st[f].phase \in GuardedPhases THEN [st[f] EXCEPT !.flag = TRUE]
                ELSE st[f]]
    /\ UNCHANGED <<call, observed, receiverVars, senderVars, checkVars, uriVars>>

\* The caller discharges the guard of the current phase by setting its flag
\* (state.is_broadcastable = true and the like).
SetFlag(e) ==
    /\ st[e].phase \in GuardedPhases
    /\ ~st[e].flag
    /\ st' = [st EXCEPT ![e].flag = TRUE]
    /\ UNCHANGED <<call, observed, receiverVars, senderVars, checkVars, uriVars>>

\* A try_next whose result keeps the flag of the value it was made from.
TryNextFlagKept(e, onClone) ==
    /\ st[e].phase \in GuardedPhases
    /\ LET r == TryFromState(st[e]) IN
         /\ st' = [st EXCEPT ![e] =
                     IF r = "Ok"
                     THEN [@ EXCEPT !.phase = Successor(st[e].phase),
                                    !.trail = Append(@, Successor(st[e].phase))]
                     ELSE IF onClone THEN @
                     ELSE [@ EXCEPT !.phase = "Dropped"]]
         /\ call' = [call EXCEPT ![e] =
                       [from |-> st[e].phase, flag |-> st[e].flag, result |-> r]]
    /\ UNCHANGED <<observed, receiverVars, senderVars, checkVars, uriVars>>

\* impl TryNext<_> for PsbtState<_> on the three guarded phases. try_next
\* takes self by value: on Err the value is gone unless the caller called it
\* on a clone.
TryNext(e, onClone) ==
    /\ st[e].phase \in GuardedPhases
    /\ LET r == TryFromState(st[e]) IN
         /\ st' = [st EXCEPT ![e] =
                     IF r = "Ok"
                     THEN [@ EXCEPT !.phase = Successor(st[e].phase),
                                    !.flag = FALSE,
                                    !.trail = Append(@, Successor(st[e].phase))]
                     ELSE IF onClone THEN @
                     ELSE [@ EXCEPT !.phase = "Dropped"]]
         /\ call' = [call EXCEPT ![e] =
                       [from |-> st[e].phase, flag |-> st[e].flag, result |-> r]]
    /\ UNCHANGED <<observed, receiverVars, senderVars, checkVars, uriVars>>

(***************************************************************************)
(* receiver/mod.rs: UncheckedProposal::from_request.                       *)
(***************************************************************************)
\* 4M block size limit with base64 encoding overhead.
MaxBlockSize == 4000000

MaxContentLength == (MaxBlockSize * 4) \div 3

ContentTypes == {None, "text/plain", "text/html"}

\* Content-Length header values: absent, text that parse::<u64>() refuses
\* (not digits, or beyond u64), or a number.
ContentLengths ==
    {[kind |-> "absent", value |-> 0], [kind |-> "invalid", value |-> 0]}
    \cup {[kind |-> "number", value |-> n] :
             n \in {0, 8, 12, MaxContentLength - 1, MaxContentLength,
                    MaxContentLength + 1, 2 * MaxContentLength}}

\* A body is its length and the length of the base64 PSBT it starts with
\* (0 when it does not start with one).
Bodies == {b \in [len : {0, 8, 12, MaxContentLength + 8}, psbt_len : {0, 8}] :
             b.psbt_len <= b.len}

NoRequest == [content_type |-> None, content_length |-> [kind |-> "absent", value |-> 0],
              body |-> [len |-> 0, psbt_len |-> 0]]

\* headers.get_header(..).parse::<u64>()
ParseU64(h) == IF h.kind = "number" THEN "Ok" ELSE "Err"

\* A reader handed the body itself, without take().
LimitedIgnored(body, limit) == body.len

\* body.take(content_length) wrapped in the base64 reader and consensus_decode:
\* the decoder sees at most `limit` bytes of the body.
Limited(body, limit) == Min(body.len, limit)

DecodeOk(body, limit) == body.psbt_len > 0 /\ body.psbt_len <= Limited(body, limit)

\* The size test off by one: a content-length equal to the cap is refused.
ContentLengthAtLeastCap(content_length) == content_length >= MaxContentLength

\* if content_length > 4_000_000 * 4 / 3
ContentLengthTooLarge(content_length) == content_length > MaxContentLength

\* A from_request that validates content-length before content-type.
FromRequestLengthFirst(req) ==
    IF req.content_length.kind = "absent"
    THEN [result |-> "MissingHeader", read |-> 0]
    ELSE IF ParseU64(req.content_length) = "Err"
    THEN [result |-> "InvalidContentLength", read |-> 0]
    ELSE IF req.content_type = None
    THEN [result |-> "MissingHeader", read |-> 0]
    ELSE IF req.content_type # "text/plain"
    THEN [result |-> "InvalidContentType", read |-> 0]
    ELSE LET content_length == req.content_length.value IN
         IF ContentLengthTooLarge(content_length)
         THEN [result |-> "ContentLengthTooLarge", read |-> 0]
         ELSE IF DecodeOk(req.body, content_length)
         THEN [result |-> "Ok", read |-> req.body.psbt_len]
         ELSE [result |-> "Decode", read |-> Limited(req.body, content_length)]

\* The result of from_request and the number of body bytes it consumed.
from_request(req) ==
    IF req.content_type = None
    THEN [result |-> "MissingHeader", read |-> 0]
    ELSE IF req.content_type # "text/plain"
    THEN [result |-> "InvalidContentType", read |-> 0]
    ELSE IF req.content_length.kind = "absent"
    THEN [result |-> "MissingHeader", read |-> 0]
    ELSE IF ParseU64(req.content_length) = "Err"
    THEN [result |-> "InvalidContentLength", read |-> 0]
    ELSE LET content_length == req.content_length.value IN
         IF ContentLengthTooLarge(content_length)
         THEN [result |-> "ContentLengthTooLarge", read |-> 0]
         ELSE IF DecodeOk(req.body, content_length)
         THEN [result |-> "Ok", read |-> req.body.psbt_len]
         ELSE [result |-> "Decode", read |-> Limited(req.body, content_length)]

FromRequest ==
    /\ reqResult = None
    /\ LET r == from_request(request) IN
         /\ reqResult' = r.result
         /\ bytesRead' = r.read
    /\ UNCHANGED <<request, stateVars, senderVars, checkVars, uriVars>>

(***************************************************************************)
(* sender/mod.rs: the data of a PSBT.                                      *)
(***************************************************************************)
\* A script is an identity and the shape the input classifier looks at.
Script(id, kind) == [id |-> id, kind |-> kind]

PayeeScript == Script("payee", "P2SH")
ChangeScript == Script("change", "P2SH")
ReceiverScript == Script("receiver", "P2SH")
SenderScript == Script("sender", "P2SH")

TxOut(value, script) == [value |-> value, script_pubkey |-> script]

OutPoint(txid, vout) == [txid |-> txid, vout |-> vout]

TxIn(outpoint, sequence) == [previous_output |-> outpoint, sequence |-> sequence]

\* psbt::Input with every field unset.
EmptyPsbtIn ==
    [non_witness_utxo |-> NoneOpt, witness_utxo |-> NoneOpt, partial_sigs |-> {},
     redeem_script |-> NoneOpt, bip32_derivation |-> {},
     final_script_sig |-> NoneOpt, final_script_witness |-> NoneOpt,
     proprietary |-> {}, unknown |-> {}]

\* psbt::Output with every field unset.
EmptyPsbtOut == [bip32_derivation |-> {}, proprietary |-> {}, unknown |-> {}]

MakePsbt(version, lock_time, txins, txouts, psbtins, psbtouts) ==
    [global |-> [unsigned_tx |-> [version |-> version, lock_time |-> lock_time,
                                  input |-> txins, output |-> txouts],
                 xpub |-> {}, proprietary |-> {}, unknown |-> {}],
     inputs |-> psbtins,
     outputs |-> psbtouts]

\* InputPair::previous_txout: the witness UTXO when present, otherwise the
\* output of the non-witness UTXO the outpoint's vout names.
previous_txout(txin, psbtin) ==
    IF IsSome(psbtin.witness_utxo)
    THEN [ok |-> TRUE, txout |-> Unwrap(psbtin.witness_utxo)]
    ELSE IF IsSome(psbtin.non_witness_utxo)
              /\ txin.previous_output.vout < Len(Unwrap(psbtin.non_witness_utxo).output)
    THEN [ok |-> TRUE,
          txout |-> Unwrap(psbtin.non_witness_utxo).output[txin.previous_output.vout + 1]]
    ELSE [ok |-> FALSE, txout |-> TxOut(0, Script("none", "none"))]

\* PsbtExt::validate_input_utxos(true): every input resolves its funding output.
validate_input_utxos(psbt) ==
    \A i \in 1..Len(psbt.inputs) :
        previous_txout(psbt.global.unsigned_tx.input[i], psbt.inputs[i]).ok

\* InputType::from_spent_input.
from_spent_input(txout, psbtin) ==
    LET kind == txout.script_pubkey.kind IN
    IF kind = "P2PKH" THEN [ok |-> TRUE, ty |-> "P2Pkh"]
    ELSE IF kind = "P2SH" /\ IsSome(psbtin.redeem_script)
    THEN IF Unwrap(psbtin.redeem_script) = "P2WPKH"
         THEN [ok |-> TRUE, ty |-> "NestedSegWitV0Pubkey"]
         ELSE IF Unwrap(psbtin.redeem_script) = "P2WSH"
         THEN [ok |-> TRUE, ty |-> "NestedSegWitV0Script"]
         ELSE [ok |-> TRUE, ty |-> "P2Sh"]
    ELSE IF kind = "P2WPKH" THEN [ok |-> TRUE, ty |-> "SegWitV0Pubkey"]
    ELSE IF kind = "P2WSH" THEN [ok |-> TRUE, ty |-> "SegWitV0Script"]
    ELSE IF kind = "P2TR" THEN [ok |-> TRUE, ty |-> "Taproot"]
    ELSE [ok |-> FALSE, ty |-> "Unknown"]

\* InputType::expected_input_weight, in weight units.
expected_input_weight(ty) ==
    CASE ty = "P2Pkh" -> 4 * 148
      [] ty = "NestedSegWitV0Pubkey" -> 4 * 91
      [] ty = "SegWitV0Pubkey" -> 4 * 68
      [] OTHER -> 4 * 58

\* Transaction::weight of an unsigned transaction (empty script_sig, no
\* witness, 23-byte output scripts).
TxWeight(tx) == 4 * (10 + 41 * Len(tx.input) + 32 * Len(tx.output))

\* ComputeWeight for a TxIn and for a TxOut.
TxInWeight(txin) == 4 * 41

TxOutWeight(txout) == 4 * 32

(***************************************************************************)
(* sender/mod.rs: from_psbt_and_uri and what it calls.                     *)
(***************************************************************************)
\* check_single_payee, scanning the outputs from index i.
RECURSIVE CheckSinglePayeeFrom(_, _, _, _, _)
CheckSinglePayeeFrom(outs, script_pubkey, amount, i, payee_found) ==
    IF i > Len(outs)
    THEN IF payee_found THEN "Ok" ELSE "MissingPayeeOutput"
    ELSE IF outs[i].script_pubkey = script_pubkey
    THEN IF outs[i].value # amount THEN "PayeeValueNotEqual"
         ELSE IF payee_found THEN "MultiplePayeeOutputs"
         ELSE CheckSinglePayeeFrom(outs, script_pubkey, amount, i + 1, TRUE)
    ELSE CheckSinglePayeeFrom(outs, script_pubkey, amount, i + 1, payee_found)

\* A payee check that stops at the first output paying the payee the amount.
CheckSinglePayeeFirstMatch(psbt, script_pubkey, amount) ==
    LET outs == psbt.global.unsigned_tx.output IN
    IF \E i \in 1..Len(outs) :
          outs[i].script_pubkey = script_pubkey /\ outs[i].value = amount
    THEN "Ok"
    ELSE IF \E i \in 1..Len(outs) : outs[i].script_pubkey = script_pubkey
    THEN "PayeeValueNotEqual"
    ELSE "MissingPayeeOutput"

check_single_payee(psbt, script_pubkey, amount) ==
    CheckSinglePayeeFrom(psbt.global.unsigned_tx.output, script_pubkey, amount, 1, FALSE)

\* A field-wise clear that forgets the per-input derivation paths.
ClearKeepingInputDerivations(psbt) ==
    [global |-> [psbt.global EXCEPT !.xpub = {}, !.proprietary = {}, !.unknown = {}],
     inputs |-> [i \in 1..Len(psbt.inputs) |->
                   [psbt.inputs[i] EXCEPT !.proprietary = {}, !.unknown = {}]],
     outputs |-> [i \in 1..Len(psbt.outputs) |->
                   [psbt.outputs[i] EXCEPT !.bip32_derivation = {},
                                           !.proprietary = {}, !.unknown = {}]]]

clear_unneeded_fields(psbt) ==
    [global |-> [psbt.global EXCEPT !.xpub = {}, !.proprietary = {}, !.unknown = {}],
     inputs |-> [i \in 1..Len(psbt.inputs) |->
                   [psbt.inputs[i] EXCEPT !.bip32_derivation = {},
                                          !.proprietary = {}, !.unknown = {}]],
     outputs |-> [i \in 1..Len(psbt.outputs) |->
                   [psbt.outputs[i] EXCEPT !.bip32_derivation = {},
                                           !.proprietary = {}, !.unknown = {}]]]

Failed(err) == [err |-> err, value |-> NoneOpt]

\* A check_fee_output_amount that also refuses an output worth exactly the
\* contribution.
CheckFeeOutputAmountStrict(output, amount, clamp_fee_contribution) ==
    IF output.value <= amount
    THEN IF clamp_fee_contribution
         THEN [err |-> "Ok", value |-> output.value]
         ELSE [err |-> "FeeOutputValueLowerThanFeeContribution", value |-> 0]
    ELSE [err |-> "Ok", value |-> amount]

\* check_fee_output_amount
check_fee_output_amount(output, amount, clamp_fee_contribution) ==
    IF output.value < amount
    THEN IF clamp_fee_contribution
         THEN [err |-> "Ok", value |-> output.value]
         ELSE [err |-> "FeeOutputValueLowerThanFeeContribution", value |-> 0]
    ELSE [err |-> "Ok", value |-> amount]

\* A find_change_index that takes the first of two outputs as the change.
FindChangeIndexFirstOutput(psbt, payee, amount, clamp_fee_contribution) ==
    LET outs == psbt.global.unsigned_tx.output
        n == Len(outs)
    IN  IF n = 0 THEN Failed("NoOutputs")
        ELSE IF n = 1 /\ ~clamp_fee_contribution /\ outs[1].script_pubkey = payee
        THEN Failed("FeeOutputValueLowerThanFeeContribution")
        ELSE IF n = 1 /\ clamp_fee_contribution /\ outs[1].script_pubkey = payee
        THEN [err |-> "Ok", value |-> NoneOpt]
        ELSE IF n = 1 THEN Failed("MissingPayeeOutput")
        ELSE IF n # 2 THEN Failed("AmbiguousChangeOutput")
        ELSE LET r == check_fee_output_amount(outs[1], amount, clamp_fee_contribution)
             IN  IF r.err # "Ok" THEN Failed(r.err)
                 ELSE [err |-> "Ok", value |-> Some([amount |-> r.value, index |-> 0])]

\* find_change_index; the index is 0-based as in the code.
find_change_index(psbt, payee, amount, clamp_fee_contribution) ==
    LET outs == psbt.global.unsigned_tx.output
        n == Len(outs)
    IN  IF n = 0 THEN Failed("NoOutputs")
        ELSE IF n = 1 /\ ~clamp_fee_contribution /\ outs[1].script_pubkey = payee
        THEN Failed("FeeOutputValueLowerThanFeeContribution")
        ELSE IF n = 1 /\ clamp_fee_contribution /\ outs[1].script_pubkey = payee
        THEN [err |-> "Ok", value |-> NoneOpt]
        ELSE IF n = 1 THEN Failed("MissingPayeeOutput")
        ELSE IF n # 2 THEN Failed("AmbiguousChangeOutput")
        ELSE LET found == {i \in 1..n : outs[i].script_pubkey # payee} IN
             IF found = {} THEN Failed("MultiplePayeeOutputs")
             ELSE LET i == CHOOSE j \in found : \A k \in found : j <= k
                      r == check_fee_output_amount(outs[i], amount, clamp_fee_contribution)
                  IN  IF r.err # "Ok" THEN Failed(r.err)
                      ELSE [err |-> "Ok",
                            value |-> Some([amount |-> r.value, index |-> i - 1])]

\* A check_change_index that does not compare the output with the payee.
CheckChangeIndexAnyOutput(psbt, payee, amount, index, clamp_fee_contribution) ==
    LET outs == psbt.global.unsigned_tx.output IN
    IF index >= Len(outs) THEN Failed("ChangeIndexOutOfBounds")
    ELSE LET r == check_fee_output_amount(outs[index + 1], amount, clamp_fee_contribution)
         IN  IF r.err # "Ok" THEN Failed(r.err)
             ELSE [err |-> "Ok", value |-> Some([amount |-> r.value, index |-> index])]

\* check_change_index
check_change_index(psbt, payee, amount, index, clamp_fee_contribution) ==
    LET outs == psbt.global.unsigned_tx.output IN
    IF index >= Len(outs) THEN Failed("ChangeIndexOutOfBounds")
    ELSE IF outs[index + 1].script_pubkey = payee THEN Failed("ChangeIndexPointsAtPayee")
    ELSE LET r == check_fee_output_amount(outs[index + 1], amount, clamp_fee_contribution)
         IN  IF r.err # "Ok" THEN Failed(r.err)
             ELSE [err |-> "Ok", value |-> Some([amount |-> r.value, index |-> index])]

\* determine_fee_contribution
determine_fee_contribution(psbt, payee, params) ==
    IF ~IsSome(params.fee_contribution) THEN [err |-> "Ok", value |-> NoneOpt]
    ELSE LET fc == Unwrap(params.fee_contribution) IN
         IF IsSome(fc.index)
         THEN check_change_index(psbt, payee, fc.amount, Unwrap(fc.index),
                                 params.clamp_fee_contribution)
         ELSE find_change_index(psbt, payee, fc.amount, params.clamp_fee_contribution)

\* A serialize_url that writes the fee parameters before the flag.
SerializeUrlFeeFirst(endpoint, disable_output_substitution, fee_contribution) ==
    [endpoint |-> endpoint,
     query |-> <<[key |-> "v", value |-> 1]>>
               \o (IF IsSome(fee_contribution)
                   THEN <<[key |-> "additionalfeeoutputindex",
                           value |-> Unwrap(fee_contribution).index],
                          [key |-> "maxadditionalfeecontribution",
                           value |-> Unwrap(fee_contribution).amount]>>
                   ELSE <<>>)
               \o (IF disable_output_substitution
                   THEN <<[key |-> "disableoutputsubstitution", value |-> 1]>>
                   ELSE <<>>)]

\* serialize_url: the endpoint and the query parameters in the order written
\* (the first introduced by "?", the others by "&"; numbers in decimal).
serialize_url(endpoint, disable_output_substitution, fee_contribution) ==
    [endpoint |-> endpoint,
     query |-> <<[key |-> "v", value |-> 1]>>
               \o (IF disable_output_substitution
                   THEN <<[key |-> "disableoutputsubstitution", value |-> 1]>>
                   ELSE <<>>)
               \o (IF IsSome(fee_contribution)
                   THEN <<[key |-> "additionalfeeoutputindex",
                           value |-> Unwrap(fee_contribution).index],
                          [key |-> "maxadditionalfeecontribution",
                           value |-> Unwrap(fee_contribution).amount]>>
                   ELSE <<>>)]

\* The keys of a map, in ascending order.
RECURSIVE KeysInOrder(_)
KeysInOrder(m) ==
    IF m = {} THEN <<>>
    ELSE LET k == CHOOSE x \in m : \A y \in m : x <= y
         IN  <<k>> \o KeysInOrder(m \ {k})

\* One key-value record of the PSBT encoding per entry of a map field (the
\* map fields are held as their key sets, so the records carry no value).
MapEntries(scope, index, field, m) ==
    LET ks == KeysInOrder(m) IN
    [i \in 1..Len(ks) |-> [scope |-> scope, index |-> index, field |-> field,
                           key |-> ks[i], value |-> NoneOpt]]

\* One key-value record, holding the value, when an optional field is
\* present.
OptEntry(scope, index, field, o) ==
    IF IsSome(o) THEN <<[scope |-> scope, index |-> index, field |-> field, key |-> 0,
                         value |-> o]>>
    ELSE <<>>

SerializeInput(psbtin, i) ==
    OptEntry("input", i, "non_witness_utxo", psbtin.non_witness_utxo)
    \o OptEntry("input", i, "witness_utxo", psbtin.witness_utxo)
    \o MapEntries("input", i, "partial_sigs", psbtin.partial_sigs)
    \o OptEntry("input", i, "redeem_script", psbtin.redeem_script)
    \o MapEntries("input", i, "bip32_derivation", psbtin.bip32_derivation)
    \o OptEntry("input", i, "final_script_sig", psbtin.final_script_sig)
    \o OptEntry("input", i, "final_script_witness", psbtin.final_script_witness)
    \o MapEntries("input", i, "proprietary", psbtin.proprietary)
    \o MapEntries("input", i, "unknown", psbtin.unknown)

SerializeOutput(psbtout, i) ==
    MapEntries("output", i, "bip32_derivation", psbtout.bip32_derivation)
    \o MapEntries("output", i, "proprietary", psbtout.proprietary)
    \o MapEntries("output", i, "unknown", psbtout.unknown)

RECURSIVE SerializeInputsFrom(_, _)
SerializeInputsFrom(ins, i) ==
    IF i > Len(ins) THEN <<>>
    ELSE SerializeInput(ins[i], i) \o SerializeInputsFrom(ins, i + 1)

RECURSIVE SerializeOutputsFrom(_, _)
SerializeOutputsFrom(outs, i) ==
    IF i > Len(outs) THEN <<>>
    ELSE SerializeOutput(outs[i], i) \o SerializeOutputsFrom(outs, i + 1)

\* serialize_psbt: the unsigned transaction, then the key-value records of
\* the global, per-input and per-output maps in their encoding order.
serialize_psbt(psbt) ==
    [unsigned_tx |-> psbt.global.unsigned_tx,
     records |-> MapEntries("global", 0, "xpub", psbt.global.xpub)
                 \o MapEntries("global", 0, "proprietary", psbt.global.proprietary)
                 \o MapEntries("global", 0, "unknown", psbt.global.unknown)
                 \o SerializeInputsFrom(psbt.inputs, 1)
                 \o SerializeOutputsFrom(psbt.outputs, 1)]

\* The keys of the records of one map field.
DecodedKeys(records, scope, index, field) ==
    {records[k].key : k \in {j \in 1..Len(records) :
                                /\ records[j].scope = scope
                                /\ records[j].index = index
                                /\ records[j].field = field}}

\* The value of the record of one optional field, when there is one.
DecodedOpt(records, scope, index, field) ==
    LET ks == {j \in 1..Len(records) : /\ records[j].scope = scope
                                       /\ records[j].index = index
                                       /\ records[j].field = field}
    IN  IF ks = {} THEN NoneOpt ELSE records[CHOOSE k \in ks : TRUE].value

\* Psbt::consensus_decode, as load_psbt_from_base64 runs it on the decoded
\* base64: the unsigned transaction, then one map for each of its inputs
\* and one for each of its outputs; records of a map beyond those are left
\* over and the decoding fails.
consensus_decode(body) ==
    LET tx == body.unsigned_tx
        rs == body.records
    IN  IF \E k \in 1..Len(rs) :
              \/ rs[k].scope = "input" /\ rs[k].index > Len(tx.input)
              \/ rs[k].scope = "output" /\ rs[k].index > Len(tx.output)
        THEN [ok |-> FALSE, psbt |-> MakePsbt(tx.version, tx.lock_time, <<>>, <<>>, <<>>, <<>>)]
        ELSE [ok |-> TRUE,
              psbt |->
                [global |-> [unsigned_tx |-> tx,
                             xpub |-> DecodedKeys(rs, "global", 0, "xpub"),
                             proprietary |-> DecodedKeys(rs, "global", 0, "proprietary"),
                             unknown |-> DecodedKeys(rs, "global", 0, "unknown")],
                 inputs |-> [i \in 1..Len(tx.input) |->
                    [non_witness_utxo |-> DecodedOpt(rs, "input", i, "non_witness_utxo"),
                     witness_utxo |-> DecodedOpt(rs, "input", i, "witness_utxo"),
                     partial_sigs |-> DecodedKeys(rs, "input", i, "partial_sigs"),
                     redeem_script |-> DecodedOpt(rs, "input", i, "redeem_script"),
                     bip32_derivation |-> DecodedKeys(rs, "input", i, "bip32_derivation"),
                     final_script_sig |-> DecodedOpt(rs, "input", i, "final_script_sig"),
                     final_script_witness |->
                         DecodedOpt(rs, "input", i, "final_script_witness"),
                     proprietary |-> DecodedKeys(rs, "input", i, "proprietary"),
                     unknown |-> DecodedKeys(rs, "input", i, "unknown")]],
                 outputs |-> [i \in 1..Len(tx.output) |->
                    [bip32_derivation |-> DecodedKeys(rs, "output", i, "bip32_derivation"),
                     proprietary |-> DecodedKeys(rs, "output", i, "proprietary"),
                     unknown |-> DecodedKeys(rs, "output", i, "unknown")]]]]

NoContext == [result |-> None]

CreateFailed(err) == [result |-> err]

\* A from_psbt_and_uri that encodes the body before it clears the fields.
FromPsbtAndUriBodyBeforeClear(psbt0, uri, params) ==
    IF ~validate_input_utxos(psbt0) THEN CreateFailed("InvalidOriginalInput")
    ELSE
    LET disable_output_substitution ==
            uri.disable_output_substitution \/ params.disable_output_substitution
        payee == uri.address
        single == check_single_payee(psbt0, payee, uri.amount)
        fee_contribution == determine_fee_contribution(psbt0, payee, params)
        psbt == clear_unneeded_fields(psbt0)
    IN  IF single # "Ok" THEN CreateFailed(single)
        ELSE IF fee_contribution.err # "Ok" THEN CreateFailed(fee_contribution.err)
        ELSE IF Len(psbt.inputs) = 0 THEN CreateFailed("NoInputs")
        ELSE
        LET txin == psbt.global.unsigned_tx.input[1]
            txout == previous_txout(txin, psbt.inputs[1]).txout
            input_type == from_spent_input(txout, psbt.inputs[1])
        IN  IF ~input_type.ok THEN CreateFailed("Panic")
            ELSE [result |-> "Ok",
                  request |-> [url |-> serialize_url(uri.endpoint,
                                                     disable_output_substitution,
                                                     fee_contribution.value),
                               body |-> serialize_psbt(psbt0)],
                  ctx |-> [original_psbt |-> psbt,
                           disable_output_substitution |-> disable_output_substitution,
                           fee_contribution |-> fee_contribution.value,
                           payee |-> payee,
                           input_type |-> input_type.ty,
                           sequence |-> txin.sequence]]

\* from_psbt_and_uri
from_psbt_and_uri(psbt0, uri, params) ==
    IF ~validate_input_utxos(psbt0) THEN CreateFailed("InvalidOriginalInput")
    ELSE
    LET disable_output_substitution ==
            uri.disable_output_substitution \/ params.disable_output_substitution
        payee == uri.address
        single == check_single_payee(psbt0, payee, uri.amount)
        fee_contribution == determine_fee_contribution(psbt0, payee, params)
        psbt == clear_unneeded_fields(psbt0)
    IN  IF single # "Ok" THEN CreateFailed(single)
        ELSE IF fee_contribution.err # "Ok" THEN CreateFailed(fee_contribution.err)
        ELSE IF Len(psbt.inputs) = 0 THEN CreateFailed("NoInputs")
        ELSE
        LET txin == psbt.global.unsigned_tx.input[1]
            txout == previous_txout(txin, psbt.inputs[1]).txout
            input_type == from_spent_input(txout, psbt.inputs[1])
        IN  IF ~input_type.ok THEN CreateFailed("Panic")
            ELSE [result |-> "Ok",
                  request |-> [url |-> serialize_url(uri.endpoint,
                                                     disable_output_substitution,
                                                     fee_contribution.value),
                               body |-> serialize_psbt(psbt)],
                  ctx |-> [original_psbt |-> psbt,
                           disable_output_substitution |-> disable_output_substitution,
                           fee_contribution |-> fee_contribution.value,
                           payee |-> payee,
                           input_type |-> input_type.ty,
                           sequence |-> txin.sequence]]

\* Uri::create_request
CreateRequest ==
    /\ created.result = None
    /\ created' = from_psbt_and_uri(original.psbt, original.uri, original.params)
    /\ UNCHANGED <<original, response, outcome, stateVars, receiverVars, checkVars, uriVars>>

(***************************************************************************)
(* sender/mod.rs: Context::process_response and its checks.                *)
(***************************************************************************)
\* calculate_psbt_fee: the Amount subtraction aborts when it would go
\* below zero (fee = -1 stands for the abort).
calculate_psbt_fee(psbt) ==
    LET tx == psbt.global.unsigned_tx
        total_outputs == SumSeq([i \in 1..Len(tx.output) |-> tx.output[i].value])
        total_inputs ==
            SumSeq([i \in 1..Len(tx.input) |->
                      previous_txout(tx.input[i], psbt.inputs[i]).txout.value])
    IN  IF ~validate_input_utxos(psbt) \/ total_inputs < total_outputs
        THEN [panic |-> TRUE, fee |-> 0 - 1]
        ELSE [panic |-> FALSE, fee |-> total_inputs - total_outputs]

\* basic_checks with the lock_time comparison first.
BasicChecksLockTimeFirst(ctx, proposal) ==
    IF proposal.global.unsigned_tx.lock_time
           # ctx.original_psbt.global.unsigned_tx.lock_time
    THEN "LockTimesDontMatch"
    ELSE IF proposal.global.unsigned_tx.version
                # ctx.original_psbt.global.unsigned_tx.version
    THEN "VersionsDontMatch"
    ELSE "Ok"

\* basic_checks: version and lock time
basic_checks(ctx, proposal) ==
    IF proposal.global.unsigned_tx.version # ctx.original_psbt.global.unsigned_tx.version
    THEN "VersionsDontMatch"
    ELSE IF proposal.global.unsigned_tx.lock_time
                # ctx.original_psbt.global.unsigned_tx.lock_time
    THEN "LockTimesDontMatch"
    ELSE "Ok"

InputsFailed(err) == [err |-> err, total_value |-> 0, total_weight |-> 0, cursor |-> 0]

\* The two checks with the partial-signature check first.
KeyMaterialCheckSigsFirst(psbtin) ==
    IF psbtin.partial_sigs # {} THEN "ContainsPartialSigs"
    ELSE IF psbtin.bip32_derivation # {} THEN "TxInContainsKeyPaths"
    ELSE "Ok"

\* The two checks check_inputs makes on every proposed input before it
\* looks at the cursor.
KeyMaterialCheck(psbtin) ==
    IF psbtin.bip32_derivation # {} THEN "TxInContainsKeyPaths"
    ELSE IF psbtin.partial_sigs # {} THEN "ContainsPartialSigs"
    ELSE "Ok"

\* The sender arm with the funding-data checks before the sequence check.
SenderInputCheckUtxoFirst(proposed_txin, proposed_psbtin, original_txin, original_psbtin) ==
    IF IsSome(proposed_psbtin.non_witness_utxo)
    THEN "SenderTxinContainsNonWitnessUtxo"
    ELSE IF IsSome(proposed_psbtin.witness_utxo) THEN "SenderTxinContainsWitnessUtxo"
    ELSE IF proposed_txin.sequence # original_txin.sequence THEN "SenderTxinSequenceChanged"
    ELSE IF IsSome(proposed_psbtin.final_script_sig)
    THEN "SenderTxinContainsFinalScriptSig"
    ELSE IF IsSome(proposed_psbtin.final_script_witness)
    THEN "SenderTxinContainsFinalScriptWitness"
    ELSE IF ~previous_txout(original_txin, original_psbtin).ok THEN "Panic"
    ELSE "Ok"

\* The arm of check_inputs for an input that matches the head of the
\* original-input cursor (ours): the first failing check, or "Ok".
SenderInputCheck(proposed_txin, proposed_psbtin, original_txin, original_psbtin) ==
    IF proposed_txin.sequence # original_txin.sequence THEN "SenderTxinSequenceChanged"
    ELSE IF IsSome(proposed_psbtin.non_witness_utxo)
    THEN "SenderTxinContainsNonWitnessUtxo"
    ELSE IF IsSome(proposed_psbtin.witness_utxo) THEN "SenderTxinContainsWitnessUtxo"
    ELSE IF IsSome(proposed_psbtin.final_script_sig)
    THEN "SenderTxinContainsFinalScriptSig"
    ELSE IF IsSome(proposed_psbtin.final_script_witness)
    THEN "SenderTxinContainsFinalScriptWitness"
    ELSE IF ~previous_txout(original_txin, original_psbtin).ok THEN "Panic"
    ELSE "Ok"

\* The receiver arm without the comparison of sequence numbers.
ReceiverInputCheckAnySequence(ctx, proposed_txin, proposed_psbtin) ==
    IF ~(IsSome(proposed_psbtin.witness_utxo) \/ IsSome(proposed_psbtin.non_witness_utxo))
    THEN "ReceiverTxinMissingUtxoInfo"
    ELSE LET prev == previous_txout(proposed_txin, proposed_psbtin) IN
         IF ~prev.ok THEN "InvalidProposedInput"
         ELSE LET ty == from_spent_input(prev.txout, proposed_psbtin) IN
              IF ~ty.ok THEN "UnknownInputType"
              ELSE IF ty.ty # ctx.input_type THEN "MixedInputTypes"
              ELSE "Ok"

\* The arm of check_inputs for any other input (theirs).
ReceiverInputCheck(ctx, proposed_txin, proposed_psbtin) ==
    IF ~(IsSome(proposed_psbtin.witness_utxo) \/ IsSome(proposed_psbtin.non_witness_utxo))
    THEN "ReceiverTxinMissingUtxoInfo"
    ELSE IF proposed_txin.sequence # ctx.sequence THEN "MixedSequence"
    ELSE LET prev == previous_txout(proposed_txin, proposed_psbtin) IN
         IF ~prev.ok THEN "InvalidProposedInput"
         ELSE LET ty == from_spent_input(prev.txout, proposed_psbtin) IN
              IF ~ty.ok THEN "UnknownInputType"
              ELSE IF ty.ty # ctx.input_type THEN "MixedInputTypes"
              ELSE "Ok"

\* The cursor test skipped: a proposal may leave original inputs unmatched.
InputsCursorUnchecked(j, original_txins) == "Ok"

\* ensure!(original_inputs.peek().is_none(), MissingOrShuffledInputs)
InputsCursorExhausted(j, original_txins) ==
    IF j <= Len(original_txins) THEN "MissingOrShuffledInputs" ELSE "Ok"

\* The loop of check_inputs from proposed input i, with the cursor on
\* original input j: the first failing check, or the totals and the cursor.
RECURSIVE InputsWalk(_, _, _, _, _, _)
InputsWalk(ctx, proposal, i, j, total_value, total_weight) ==
    LET original_psbt == ctx.original_psbt
        original_txins == original_psbt.global.unsigned_tx.input
    IN
    IF i > Len(proposal.inputs)
    THEN [err |-> "Ok", total_value |-> total_value, total_weight |-> total_weight,
          cursor |-> j]
    ELSE
    LET txin == proposal.global.unsigned_tx.input[i]
        psbtin == proposal.inputs[i]
    IN  IF KeyMaterialCheck(psbtin) # "Ok" THEN InputsFailed(KeyMaterialCheck(psbtin))
        ELSE IF j <= Len(original_txins)
                  /\ txin.previous_output = original_txins[j].previous_output
        THEN LET r == SenderInputCheck(txin, psbtin, original_txins[j],
                                       original_psbt.inputs[j])
             IN  IF r # "Ok" THEN InputsFailed(r)
                 ELSE InputsWalk(ctx, proposal, i + 1, j + 1,
                        total_value
                          + previous_txout(original_txins[j],
                                           original_psbt.inputs[j]).txout.value,
                        total_weight + TxInWeight(original_txins[j]))
        ELSE LET r == ReceiverInputCheck(ctx, txin, psbtin)
             IN  IF r # "Ok" THEN InputsFailed(r)
                 ELSE InputsWalk(ctx, proposal, i + 1, j,
                        total_value + previous_txout(txin, psbtin).txout.value,
                        total_weight + TxInWeight(txin))

\* check_inputs: the loop, then the test that the cursor is exhausted.
check_inputs(ctx, proposal) ==
    LET walk == InputsWalk(ctx, proposal, 1, 1, 0, 0)
        original_txins == ctx.original_psbt.global.unsigned_tx.input
    IN  IF walk.err # "Ok" THEN walk
        ELSE IF InputsCursorExhausted(walk.cursor, original_txins) # "Ok"
        THEN InputsFailed(InputsCursorExhausted(walk.cursor, original_txins))
        ELSE walk

OutputsFailed(err) ==
    [err |-> err, total_value |-> 0, contributed_fee |-> 0, total_weight |-> 0]

\* check_outputs from proposed output i, with the cursor on element j of
\* original_outputs (whose enumerate() index is j - 1).
RECURSIVE CheckOutputsFrom(_, _, _, _, _, _, _, _)
CheckOutputsFrom(ctx, proposal, original_outputs, i, j, total_value0, contributed_fee, total_weight0) ==
    IF i > Len(proposal.outputs)
    THEN IF j <= Len(original_outputs) THEN OutputsFailed("MissingOrShuffledOutputs")
         ELSE [err |-> "Ok", total_value |-> total_value0,
               contributed_fee |-> contributed_fee, total_weight |-> total_weight0]
    ELSE
    LET proposed_txout == proposal.global.unsigned_tx.output[i]
        proposed_psbtout == proposal.outputs[i]
        total_value == total_value0 + proposed_txout.value
        total_weight == total_weight0 + TxOutWeight(proposed_txout)
        peek == j <= Len(original_outputs)
    IN  IF proposed_psbtout.bip32_derivation # {} THEN OutputsFailed("TxOutContainsKeyPaths")
        \* fee output
        ELSE IF peek /\ IsSome(ctx.fee_contribution)
                  /\ proposed_txout.script_pubkey = original_outputs[j].script_pubkey
                  /\ j - 1 = Unwrap(ctx.fee_contribution).index
        THEN IF proposed_txout.value < original_outputs[j].value
             THEN LET contributed == original_outputs[j].value - proposed_txout.value IN
                  IF ~(contributed < Unwrap(ctx.fee_contribution).amount)
                  THEN OutputsFailed("FeeContributionExceedsMaximum")
                  ELSE CheckOutputsFrom(ctx, proposal, original_outputs, i + 1, j + 1,
                                        total_value, contributed, total_weight)
             ELSE CheckOutputsFrom(ctx, proposal, original_outputs, i + 1, j + 1,
                                   total_value, contributed_fee, total_weight)
        \* payee output
        ELSE IF peek /\ original_outputs[j].script_pubkey = ctx.payee
        THEN IF ~(~ctx.disable_output_substitution
                  \/ (proposed_txout.script_pubkey = original_outputs[j].script_pubkey
                      /\ proposed_txout.value >= original_outputs[j].value))
             THEN OutputsFailed("DisallowedOutputSubstitution")
             ELSE CheckOutputsFrom(ctx, proposal, original_outputs, i + 1, j + 1,
                                   total_value, contributed_fee, total_weight)
        \* our output
        ELSE IF peek /\ proposed_txout.script_pubkey = original_outputs[j].script_pubkey
        THEN IF ~(proposed_txout.value >= original_outputs[j].value)
             THEN OutputsFailed("OutputValueDecreased")
             ELSE CheckOutputsFrom(ctx, proposal, original_outputs, i + 1, j + 1,
                                   total_value, contributed_fee, total_weight)
        \* all original outputs processed, only additional outputs remain
        ELSE CheckOutputsFrom(ctx, proposal, original_outputs, i + 1, j,
                              total_value, contributed_fee, total_weight)

\* check_outputs: the cursor named original_outputs iterates
\* proposal.global.unsigned_tx.output (sender/mod.rs:257).
check_outputs(ctx, proposal) ==
    CheckOutputsFrom(ctx, proposal, proposal.global.unsigned_tx.output, 1, 1, 0, 0, 0)

\* The Inflation test skipped.
InflationUnchecked(in_total, out_total) == FALSE

\* if out_stats.total_value > in_stats.total_value
Inflation(in_total, out_total) == out_total > in_total

\* The fee comparison skipped.
FeeNotDecreasedUnchecked(original_fee, proposed_psbt_fee) == TRUE

\* ensure!(original_fee <= proposed_psbt_fee, AbsoluteFeeDecreased)
FeeNotDecreased(original_fee, proposed_psbt_fee) == original_fee <= proposed_psbt_fee

check_fees(ctx, proposal, in_stats, out_stats) ==
    IF Inflation(in_stats.total_value, out_stats.total_value) THEN "Inflation"
    ELSE
    LET proposed_psbt_fee == in_stats.total_value - out_stats.total_value
        original_fee == calculate_psbt_fee(ctx.original_psbt)
    IN  IF original_fee.panic THEN "Panic"
        ELSE IF ~FeeNotDecreased(original_fee.fee, proposed_psbt_fee)
        THEN "AbsoluteFeeDecreased"
        ELSE IF ~(out_stats.contributed_fee <= proposed_psbt_fee - original_fee.fee)
        THEN "PayeeTookContributedFee"
        ELSE
        LET original_weight == TxWeight(ctx.original_psbt.global.unsigned_tx)
            original_fee_rate == original_fee.fee \div original_weight
        IN  IF ~(out_stats.contributed_fee
                   <= original_fee_rate * expected_input_weight(ctx.input_type)
                        * (Len(proposal.inputs) - Len(ctx.original_psbt.inputs)))
            THEN "FeeContributionPaysOutputSizeIncrease"
            ELSE "Ok"

\* process_proposal: the first failing stage's error, or "Ok".
process_proposal(ctx, proposal) ==
    LET basic == basic_checks(ctx, proposal)
        in_stats == check_inputs(ctx, proposal)
        out_stats == check_outputs(ctx, proposal)
        fees == check_fees(ctx, proposal, in_stats, out_stats)
    IN  IF basic # "Ok" THEN basic
        ELSE IF in_stats.err # "Ok" THEN in_stats.err
        ELSE IF out_stats.err # "Ok" THEN out_stats.err
        ELSE fees

\* load_psbt_from_base64 on the response body.
load_psbt_from_base64(resp) ==
    IF resp.decodes THEN [ok |-> TRUE, psbt |-> resp.psbt]
    ELSE [ok |-> FALSE, psbt |-> resp.psbt]

\* A process_response that hands back the PSBT the Context holds.
ProcessResponseReturningOriginal(ctx, resp) ==
    LET proposal == load_psbt_from_base64(resp) IN
    IF ~proposal.ok THEN [result |-> "Decode"]
    ELSE LET r == process_proposal(ctx, proposal.psbt) IN
         IF r = "Ok" THEN [result |-> "Ok", psbt |-> ctx.original_psbt]
         ELSE [result |-> r]

\* process_response: the result and, on success, the PSBT handed back.
process_response(ctx, resp) ==
    LET proposal == load_psbt_from_base64(resp) IN
    IF ~proposal.ok THEN [result |-> "Decode"]
    ELSE LET r == process_proposal(ctx, proposal.psbt) IN
         IF r = "Ok" THEN [result |-> "Ok", psbt |-> proposal.psbt]
         ELSE [result |-> r]

(***************************************************************************)
(* The arguments of create_request and the responses of the receiver.      *)
(***************************************************************************)
MaxPropInputs == 2
MaxPropOutputs == 2
MaxOrigOutputs == 3

\* The amounts a URI asks for, in satoshi.
PayAmounts == {3000}

\* A finalized sender input spending a nested-SegWit output of 10000 sat.
SenderPsbtIn ==
    [EmptyPsbtIn EXCEPT !.witness_utxo = Some(TxOut(10000, SenderScript)),
                        !.redeem_script = Some("P2WPKH"),
                        !.final_script_sig = Some("sig"),
                        !.final_script_witness = Some("witness")]

\* The same input as a wallet hands it over, with its derivation paths and
\* vendor fields.
SenderPsbtInWithPaths ==
    [SenderPsbtIn EXCEPT !.bip32_derivation = {1}, !.proprietary = {1}, !.unknown = {1}]

\* Input k of the transaction, with the sender's sequence number (0 here;
\* any other number is a changed sequence).
SenderTxIn(k) == TxIn(OutPoint(k, 0), 0)

\* The sender's change for n inputs: the inputs less the payment and a fee
\* of 920 sat.
ChangeValue(n, pay) == n * 10000 - pay - 920

Params(fee_contribution, disable, clamp) ==
    [disable_output_substitution |-> disable, fee_contribution |-> fee_contribution,
     clamp_fee_contribution |-> clamp]

Uri(amount, disable) ==
    [address |-> PayeeScript, amount |-> amount, endpoint |-> "https://example.com",
     disable_output_substitution |-> disable]

\* The originals whose proposals Spec validates: one or two inputs, the
\* payee before or after the change.
SenderOriginals ==
    {[psbt |-> MakePsbt(2, 0, [k \in 1..n |-> SenderTxIn(k)],
                        IF payeeFirst
                        THEN <<TxOut(pay, PayeeScript),
                               TxOut(ChangeValue(n, pay), ChangeScript)>>
                        ELSE <<TxOut(ChangeValue(n, pay), ChangeScript),
                               TxOut(pay, PayeeScript)>>,
                        [k \in 1..n |-> SenderPsbtIn],
                        <<EmptyPsbtOut, EmptyPsbtOut>>),
      uri |-> Uri(pay, disable),
      params |-> Params(fc, FALSE, FALSE)] :
        pay \in PayAmounts, n \in 1..2, payeeFirst \in BOOLEAN, disable \in BOOLEAN,
        fc \in {NoneOpt, Some([amount |-> 400, index |-> NoneOpt])}}

\* Inputs a proposal may hold: the sender's inputs echoed without their
\* funding data, a receiver input of the sender's type, and inputs that
\* fail one of the input checks.
ReceiverPsbtIn ==
    [EmptyPsbtIn EXCEPT !.witness_utxo = Some(TxOut(5000, ReceiverScript)),
                        !.redeem_script = Some("P2WPKH"),
                        !.final_script_sig = Some("sig"),
                        !.final_script_witness = Some("witness")]

ProposalInputChoices ==
    {[txin |-> SenderTxIn(k), psbtin |-> EmptyPsbtIn] : k \in 1..2}
    \cup {[txin |-> SenderTxIn(3), psbtin |-> ReceiverPsbtIn],
          [txin |-> SenderTxIn(1),
           psbtin |-> [EmptyPsbtIn EXCEPT !.bip32_derivation = {1}]],
          [txin |-> SenderTxIn(3), psbtin |-> EmptyPsbtIn],
          [txin |-> SenderTxIn(3),
           psbtin |-> [EmptyPsbtIn EXCEPT
                         !.witness_utxo = Some(TxOut(5000, Script("receiver", "P2PKH")))]]}

\* Outputs a proposal may hold, for an original paying pay with change c.
ProposalOutputChoices(pay, c) ==
    {[txout |-> TxOut(v, PayeeScript), psbtout |-> EmptyPsbtOut] :
        v \in {pay, pay - 1, 10 * pay}}
    \cup {[txout |-> TxOut(v, ChangeScript), psbtout |-> EmptyPsbtOut] :
            v \in {c, c - 1080, c + 420}}
    \cup {[txout |-> TxOut(pay, PayeeScript),
           psbtout |-> [EmptyPsbtOut EXCEPT !.bip32_derivation = {1}]]}

ProposalFrom(version, lock_time, ins, outs) ==
    MakePsbt(version, lock_time,
             [i \in 1..Len(ins) |-> ins[i].txin], [i \in 1..Len(outs) |-> outs[i].txout],
             [i \in 1..Len(ins) |-> ins[i].psbtin], [i \in 1..Len(outs) |-> outs[i].psbtout])

\* The value of the output of an original PSBT that pays to script.
OriginalValue(psbt, script) ==
    LET outs == psbt.global.unsigned_tx.output
        i == CHOOSE j \in 1..Len(outs) : outs[j].script_pubkey = script
    IN  outs[i].value

ProposalInputSeqs(n) == SeqsUpTo(ProposalInputChoices, n)

ProposalOutputSeqs(ctx, n) ==
    SeqsUpTo(ProposalOutputChoices(OriginalValue(ctx.original_psbt, PayeeScript),
                                   OriginalValue(ctx.original_psbt, ChangeScript)), n)

Respond(resp) ==
    /\ response' = resp
    /\ outcome' = process_response(created.ctx, resp)

\* Context::process_response, on the responses a receiver may send: one that
\* does not decode, every proposal of up to MaxPropInputs inputs and
\* MaxPropOutputs outputs with the original's version and lock time, and the
\* shorter proposals with another version or lock time.
ProcessResponse ==
    /\ created.result = "Ok"
    /\ outcome.result = None
    /\ \/ Respond([decodes |-> FALSE, psbt |-> created.ctx.original_psbt])
       \/ \E i \in ProposalInputSeqs(MaxPropInputs),
             o \in ProposalOutputSeqs(created.ctx, MaxPropOutputs) :
               Respond([decodes |-> TRUE, psbt |-> ProposalFrom(2, 0, i, o)])
       \/ \E v \in {<<3, 0>>, <<2, 1>>, <<3, 1>>},
             i \in ProposalInputSeqs(MaxPropInputs - 1),
             o \in ProposalOutputSeqs(created.ctx, MaxPropOutputs - 1) :
               Respond([decodes |-> TRUE, psbt |-> ProposalFrom(v[1], v[2], i, o)])
    /\ UNCHANGED <<original, created, stateVars, receiverVars, checkVars, uriVars>>

\* The originals whose proposals SpecInputs validates: one or two inputs
\* with the sequence numbers seqs, no fee contribution, substitution allowed.
MaxBaseInputs == 2

InputOriginal(seqs) ==
    [psbt |-> MakePsbt(2, 0, [k \in 1..Len(seqs) |-> TxIn(OutPoint(k, 0), seqs[k])],
                       <<TxOut(3000, PayeeScript),
                         TxOut(ChangeValue(Len(seqs), 3000), ChangeScript)>>,
                       [k \in 1..Len(seqs) |-> SenderPsbtIn],
                       <<EmptyPsbtOut, EmptyPsbtOut>>),
     uri |-> Uri(3000, FALSE),
     params |-> Params(NoneOpt, FALSE, FALSE)]

InputOriginalSequences == {<<0>>, <<1>>, <<0, 0>>, <<0, 1>>}

\* A transaction whose only output funds a receiver input.
FundingTx == [output |-> <<TxOut(5000, ReceiverScript)>>]

\* The per-input maps a proposal may carry on one input: every combination
\* of the fields check_inputs looks at.
ProbePsbtIns ==
    {[EmptyPsbtIn EXCEPT !.non_witness_utxo = nwu, !.witness_utxo = wu,
                         !.redeem_script = Some("P2WPKH"),
                         !.final_script_sig = fss, !.final_script_witness = fsw,
                         !.bip32_derivation = b, !.partial_sigs = p] :
        nwu \in {NoneOpt, Some(FundingTx)},
        wu \in {NoneOpt, Some(TxOut(5000, ReceiverScript)),
                Some(TxOut(5000, Script("receiver", "P2PKH")))},
        fss \in {NoneOpt, Some("sig")}, fsw \in {NoneOpt, Some("witness")},
        b \in {{}, {1}}, p \in {{}, {1}}}

\* One input of a proposal under test: an outpoint of the sender (txid 1 or
\* 2) or of the receiver (txid 3), either sequence number, any per-input map.
ProbeInputs ==
    {[txin |-> TxIn(OutPoint(k, 0), s), psbtin |-> pin] :
        k \in 1..3, s \in {0, 1}, pin \in ProbePsbtIns}

\* The inputs that pass check_inputs for the original: the sender's inputs
\* echoed without their data, and a receiver input of the captured sequence
\* and input type.
CleanInputs(psbt) ==
    LET txins == psbt.global.unsigned_tx.input IN
    {[txin |-> txins[k], psbtin |-> EmptyPsbtIn] : k \in 1..Len(txins)}
    \cup {[txin |-> TxIn(OutPoint(3, 0), txins[1].sequence), psbtin |-> ReceiverPsbtIn]}

\* The outputs of a proposal under test: the original's, output 1 with or
\* without key paths.
ProbeOutputs(psbt, keyPaths) ==
    LET outs == psbt.global.unsigned_tx.output IN
    [i \in 1..Len(outs) |->
        [txout |-> outs[i],
         psbtout |-> IF keyPaths /\ i = 1
                     THEN [EmptyPsbtOut EXCEPT !.bip32_derivation = {1}]
                     ELSE EmptyPsbtOut]]

\* The list base with probe put in front of position p.
InsertAt(base, p, probe) ==
    [i \in 1..(Len(base) + 1) |->
        IF i < p THEN base[i] ELSE IF i = p THEN probe ELSE base[i - 1]]

\* Context::process_response, on proposals that keep the original's outputs
\* and whose inputs are up to MaxBaseInputs clean inputs and one probe.
ProcessResponseOnInputs ==
    /\ created.result = "Ok"
    /\ outcome.result = None
    /\ \E base \in SeqsUpTo(CleanInputs(created.ctx.original_psbt), MaxBaseInputs),
          probe \in ProbeInputs, keyPaths \in BOOLEAN :
          \E p \in 1..(Len(base) + 1) :
              Respond([decodes |-> TRUE,
                       psbt |-> ProposalFrom(2, 0, InsertAt(base, p, probe),
                                             ProbeOutputs(created.ctx.original_psbt,
                                                          keyPaths))])
    /\ UNCHANGED <<original, created, stateVars, receiverVars, checkVars, uriVars>>

\* The originals whose fee SpecFees has process_response compute: n inputs
\* of 10000 sat, the payment and a change that leaves a fee of 920 sat, no
\* fee at all, or 500 sat more than the inputs are worth.
MaxFundedInputs == 2
MaxFeeProposalInputs == 3

FeeChangeValues(n) == {ChangeValue(n, 3000), n * 10000 - 3000, n * 10000 - 3000 + 500}

FeeOriginal(n, change, fc) ==
    [psbt |-> MakePsbt(2, 0, [k \in 1..n |-> SenderTxIn(k)],
                       <<TxOut(3000, PayeeScript), TxOut(change, ChangeScript)>>,
                       [k \in 1..n |-> SenderPsbtIn],
                       <<EmptyPsbtOut, EmptyPsbtOut>>),
     uri |-> Uri(3000, FALSE),
     params |-> Params(fc, FALSE, FALSE)]

\* The outputs of a proposal: the original's, the payee's raised by extra.
FeeOutputs(psbt, extra) ==
    LET outs == psbt.global.unsigned_tx.output IN
    [i \in 1..Len(outs) |->
        [txout |-> IF outs[i].script_pubkey = PayeeScript
                   THEN TxOut(outs[i].value + extra, PayeeScript)
                   ELSE outs[i],
         psbtout |-> EmptyPsbtOut]]

\* Context::process_response, on a response that does not decode and on
\* proposals of up to MaxFeeProposalInputs clean inputs whose payee output
\* takes nothing, less than, all of, or more than a receiver input adds.
ProcessResponseOnFees ==
    /\ created.result = "Ok"
    /\ outcome.result = None
    /\ \/ Respond([decodes |-> FALSE, psbt |-> created.ctx.original_psbt])
       \/ \E ins \in SeqsUpTo(CleanInputs(created.ctx.original_psbt), MaxFeeProposalInputs),
             extra \in {0, 4000, 5000, 6000} :
               Respond([decodes |-> TRUE,
                        psbt |-> ProposalFrom(2, 0, ins,
                                              FeeOutputs(created.ctx.original_psbt, extra))])
    /\ UNCHANGED <<original, created, stateVars, receiverVars, checkVars, uriVars>>

\* The originals SpecCreate builds requests from: any outputs, inputs with or
\* without funding data, wallet fields present or not, every shape of Params.
CreateInputChoices ==
    {SenderPsbtIn, SenderPsbtInWithPaths, EmptyPsbtIn,
     [EmptyPsbtIn EXCEPT !.witness_utxo = Some(TxOut(10000, Script("sender", "P2A")))]}

CreateOutputChoices(pay) ==
    {TxOut(pay, PayeeScript), TxOut(pay - 1, PayeeScript),
     TxOut(6080, ChangeScript), TxOut(200, ChangeScript)}

WalletPsbtOut == [bip32_derivation |-> {1}, proprietary |-> {1}, unknown |-> {1}]

CreateOriginal(pay, n, psbtin, outs, junk, flags, clamp, fc) ==
    [psbt |-> [global |-> [unsigned_tx |-> [version |-> 2, lock_time |-> 0,
                                             input |-> [k \in 1..n |-> SenderTxIn(k)],
                                             output |-> outs],
                           xpub |-> junk, proprietary |-> junk, unknown |-> junk],
               inputs |-> [k \in 1..n |-> psbtin],
               outputs |-> [k \in 1..Len(outs) |->
                              IF junk = {} THEN EmptyPsbtOut ELSE WalletPsbtOut]],
     uri |-> Uri(pay, flags[1]),
     params |-> Params(fc, flags[2], clamp)]

\* The fee contributions Params may carry: none, an amount without an index
\* (one between the values of the change outputs, one equal to the larger),
\* an amount with an index inside or outside the outputs.
CreateFeeContributions ==
    {NoneOpt, Some([amount |-> 400, index |-> NoneOpt]),
     Some([amount |-> 6080, index |-> NoneOpt])}
    \cup {Some([amount |-> 400, index |-> Some(i)]) : i \in {0, 1, 5}}

(***************************************************************************)
(* receiver/mod.rs: UncheckedProposal::check.                              *)
(***************************************************************************)
MaxCheckInputs == 2

\* The inputs of an UncheckedProposal: with the funding output attached, or
\* without it.
CheckPsbtIns == {ReceiverPsbtIn, EmptyPsbtIn}

\* An UncheckedProposal of n inputs and the answers its Checks give: one
\* answer of unbroacastable, and one answer of owned and of already_seen for
\* each input they may be asked about (already_seen takes &mut self, so its
\* answer may differ from call to call).
UncheckedProposals(n) ==
    [psbt : {MakePsbt(2, 0, [k \in 1..n |-> SenderTxIn(k)], <<>>, ins, <<>>) :
                ins \in [1..n -> CheckPsbtIns]},
     unbroacastable : BOOLEAN,
     owned : [1..n -> BOOLEAN],
     already_seen : [1..n -> BOOLEAN]]

NoUnchecked ==
    [psbt |-> MakePsbt(2, 0, <<>>, <<>>, <<>>, <<>>), unbroacastable |-> FALSE,
     owned |-> <<>>, already_seen |-> <<>>]

\* The body of check's loop without the already_seen call.
CheckInputSkippingSeen(u, i) ==
    IF ~previous_txout(u.psbt.global.unsigned_tx.input[i], u.psbt.inputs[i]).ok
    THEN "MissingPrevout"
    ELSE IF u.owned[i] THEN "TxinOwned"
    ELSE "Ok"

\* The body of check's loop for input pair i.
CheckInput(u, i) ==
    IF ~previous_txout(u.psbt.global.unsigned_tx.input[i], u.psbt.inputs[i]).ok
    THEN "MissingPrevout"
    ELSE IF u.owned[i] THEN "TxinOwned"
    ELSE IF u.already_seen[i] THEN "TxinAlreadySeen"
    ELSE "Ok"

\* for input_pair in self.psbt.input_pairs(), from input i.
RECURSIVE CheckInputsFrom(_, _)
CheckInputsFrom(u, i) ==
    IF i > Len(u.psbt.inputs) THEN "Ok"
    ELSE IF CheckInput(u, i) # "Ok" THEN CheckInput(u, i)
    ELSE CheckInputsFrom(u, i + 1)

\* A check whose Proposal holds what extract_tx left of the PSBT: the
\* transaction, without the data of its inputs.
CheckExtractedTx(u) ==
    IF u.unbroacastable THEN [result |-> "TxUnbroadcastable"]
    ELSE IF CheckInputsFrom(u, 1) # "Ok" THEN [result |-> CheckInputsFrom(u, 1)]
    ELSE [result |-> "Ok",
          psbt |-> [u.psbt EXCEPT !.inputs = [i \in DOMAIN @ |-> EmptyPsbtIn]]]

\* UncheckedProposal::check: the Proposal, or the ChecksError.
check(u) ==
    IF u.unbroacastable THEN [result |-> "TxUnbroadcastable"]
    ELSE IF CheckInputsFrom(u, 1) # "Ok" THEN [result |-> CheckInputsFrom(u, 1)]
    ELSE [result |-> "Ok", psbt |-> u.psbt]

Check ==
    /\ checked.result = None
    /\ checked' = check(unchecked)
    /\ UNCHANGED <<unchecked, checker, stateVars, receiverVars, senderVars, uriVars>>

(***************************************************************************)
(* tests/integration.rs: BitcoindChecker, the Checks implementation whose  *)
(* already_seen inserts every outpoint it is asked about into its seen     *)
(* set, driving UncheckedProposal::check on one proposal after another.    *)
(***************************************************************************)
MaxSeenInputs == 2

\* BitcoindChecker::new, with the record of what was called on it and of
\* the outpoints of the proposals that passed check.
NewChecker == [seen |-> {}, calls |-> <<>>, passed |-> {}]

\* A receiver input funded by an output of somebody else's script.
ForeignPsbtIn ==
    [EmptyPsbtIn EXCEPT !.witness_utxo = Some(TxOut(10000, SenderScript)),
                        !.redeem_script = Some("P2WPKH")]

\* BitcoindChecker::owned: the wallet answers is_mine for the receiver's script.
Owned(script_pubkey) == script_pubkey = ReceiverScript

\* The proposals of n inputs handed to check: each input spends outpoint 1
\* or 2 and has a foreign funding output, one of the wallet, or none.
SeenProposals(n) ==
    {MakePsbt(2, 0, [k \in 1..n |-> TxIn(OutPoint(txids[k], 0), 0)], <<>>, ins, <<>>) :
        txids \in [1..n -> 1..2],
        ins \in [1..n -> {ForeignPsbtIn, ReceiverPsbtIn, EmptyPsbtIn}]}

\* The answers BitcoindChecker gives on psbt when its seen set is seen:
\* owned from the wallet; already_seen true for an outpoint in the set or
\* asked about for an earlier input of this proposal.
Answers(psbt, unbroacastable, seen) ==
    LET txins == psbt.global.unsigned_tx.input IN
    [psbt |-> psbt,
     unbroacastable |-> unbroacastable,
     owned |-> [i \in 1..Len(txins) |->
                  Owned(previous_txout(txins[i], psbt.inputs[i]).txout.script_pubkey)],
     already_seen |-> [i \in 1..Len(txins) |->
                         \/ txins[i].previous_output \in seen
                         \/ \E k \in 1..(i - 1) :
                               txins[k].previous_output = txins[i].previous_output]]

\* The calls check makes on its Checks for input pair i, in order.
InputCalls(u, i) ==
    IF ~previous_txout(u.psbt.global.unsigned_tx.input[i], u.psbt.inputs[i]).ok THEN <<>>
    ELSE IF u.owned[i] THEN <<[query |-> "owned", input |-> i]>>
    ELSE <<[query |-> "owned", input |-> i], [query |-> "already_seen", input |-> i]>>

\* The calls made from input pair i on, up to the input that fails.
RECURSIVE InputCallsFrom(_, _)
InputCallsFrom(u, i) ==
    IF i > Len(u.psbt.inputs) THEN <<>>
    ELSE IF CheckInput(u, i) # "Ok" THEN InputCalls(u, i)
    ELSE InputCalls(u, i) \o InputCallsFrom(u, i + 1)

\* The calls one run of check makes on its Checks.
CheckCalls(u) ==
    <<[query |-> "unbroacastable", input |-> 0]>>
    \o (IF u.unbroacastable THEN <<>> ELSE InputCallsFrom(u, 1))

\* A checker that does not keep the outpoints it is asked about.
SeenAfterForgetting(u, seen) == seen

\* already_seen: self.seen.insert(out_point) for every call made.
SeenAfter(u, seen) ==
    seen \cup {u.psbt.global.unsigned_tx.input[c.input].previous_output :
                 c \in {CheckCalls(u)[k] : k \in {j \in 1..Len(CheckCalls(u)) :
                                                   CheckCalls(u)[j].query = "already_seen"}}}

\* The outpoints a PSBT spends.
Spent(psbt) ==
    {psbt.global.unsigned_tx.input[i].previous_output :
        i \in 1..Len(psbt.global.unsigned_tx.input)}

\* unchecked_proposal.check(&mut bitcoind_checker) on the next proposal.
CheckWithChecker ==
    /\ checked.result # "Idle"
    /\ \E n \in 0..MaxSeenInputs, unbroacastable \in BOOLEAN :
          \E psbt \in SeenProposals(n) :
              LET u == Answers(psbt, unbroacastable, checker.seen) IN
              /\ unchecked' = u
              /\ checked' = check(u)
              /\ checker' = [seen |-> SeenAfter(u, checker.seen),
                             calls |-> CheckCalls(u),
                             passed |-> IF check(u).result = "Ok"
                                        THEN checker.passed \cup Spent(psbt)
                                        ELSE checker.passed]
    /\ UNCHANGED <<stateVars, receiverVars, senderVars, uriVars>>

(***************************************************************************)
(* state.rs: what the phases expose, PsbtState<MaybeInputsOwned>::         *)
(* script_pubkeys and PsbtState<MaybePrevoutsSeen>::outpoints.             *)
(***************************************************************************)
MaxObserved == 2

\* bitcoin::TxIn with its script_sig.
TxInWithSig(outpoint, script_sig) ==
    [previous_output |-> outpoint, script_sig |-> script_sig, sequence |-> 0]

\* The script_sig of an input of an unsigned transaction, and one that was
\* filled in.
ScriptSigs == {Script("", "empty"), Script("sig", "script_sig")}

\* A PartiallySignedTransaction with its inputs, and the counts try_from
\* compares.
ObservedPsbt(txins, psbtins) ==
    [tx_ins |-> Len(txins), psbt_ins |-> Len(psbtins), tx_outs |-> 0, psbt_outs |-> 0,
     global |-> [unsigned_tx |-> [input |-> txins]],
     inputs |-> psbtins]

\* The PSBTs of n inputs, each spending an output of a foreign script or of
\* the receiver's.
ObservedPsbts(n) ==
    {ObservedPsbt([k \in 1..n |-> TxInWithSig(OutPoint(k, 0), sigs[k])], ins) :
        sigs \in [1..n -> ScriptSigs], ins \in [1..n -> {ForeignPsbtIn, ReceiverPsbtIn}]}

NoObservation == [method |-> None, items |-> <<>>]

\* self.psbt.global.unsigned_tx.input.iter().map(|e| &e.script_sig)
script_pubkeys(psbt) ==
    [i \in 1..Len(psbt.global.unsigned_tx.input) |->
        psbt.global.unsigned_tx.input[i].script_sig]

\* self.psbt.global.unsigned_tx.input.iter().map(|e| e.previous_output)
outpoints(psbt) ==
    [i \in 1..Len(psbt.global.unsigned_tx.input) |->
        psbt.global.unsigned_tx.input[i].previous_output]

\* PsbtState<MaybeInputsOwned>::script_pubkeys, collected.
ScriptPubkeys(e) ==
    /\ st[e].phase = "MaybeInputsOwned"
    /\ observed' = [observed EXCEPT ![e] = [method |-> "script_pubkeys",
                                            items |-> script_pubkeys(st[e].psbt)]]
    /\ UNCHANGED <<st, call, receiverVars, senderVars, checkVars, uriVars>>

\* PsbtState<MaybePrevoutsSeen>::outpoints, collected.
Outpoints(e) ==
    /\ st[e].phase = "MaybePrevoutsSeen"
    /\ observed' = [observed EXCEPT ![e] = [method |-> "outpoints",
                                            items |-> outpoints(st[e].psbt)]]
    /\ UNCHANGED <<st, call, receiverVars, senderVars, checkVars, uriVars>>

(***************************************************************************)
(* uri.rs: TryFrom<&str> for Uri. A string is the sequence of its          *)
(* characters.                                                             *)
(***************************************************************************)
MaxParams == 3

PrefixBitcoin == <<"b", "i", "t", "c", "o", "i", "n", ":">>
PrefixAmount == <<"a", "m", "o", "u", "n", "t", "=">>
PrefixPjos == <<"p", "j", "o", "s", "=">>
PrefixPj == <<"p", "j", "=">>
SchemeHttps == <<"h", "t", "t", "p", "s", ":", "/", "/">>
SchemeHttp == <<"h", "t", "t", "p", ":", "/", "/">>

\* kv.starts_with(prefix)
StartsWith(s, p) == Len(s) >= Len(p) /\ SubSeq(s, 1, Len(p)) = p

\* &kv[prefix.len()..]
After(s, p) == SubSeq(s, Len(p) + 1, Len(s))

\* char::to_ascii_lowercase, on the letters the scheme is written with.
to_ascii_lowercase(c) ==
    CASE c = "B" -> "b" [] c = "I" -> "i" [] c = "T" -> "t" [] c = "C" -> "c"
      [] c = "O" -> "o" [] c = "N" -> "n" [] OTHER -> c

\* str::find(c): the position (from 1) of the first c in s, 0 when absent.
Find(s, c) ==
    IF \E i \in 1..Len(s) : s[i] = c
    THEN CHOOSE i \in 1..Len(s) : s[i] = c /\ \A j \in 1..(i - 1) : s[j] # c
    ELSE 0

\* str::split(c): the pieces between the occurrences of c.
RECURSIVE Split(_, _)
Split(s, c) ==
    IF Find(s, c) = 0 THEN <<s>>
    ELSE <<SubSeq(s, 1, Find(s, c) - 1)>> \o Split(SubSeq(s, Find(s, c) + 1, Len(s)), c)

\* The scheme test: every character of s paired with one of "bitcoin:"
\* equals it once lowercased, and s has at least 8 characters.
BadSchema(s) ==
    \/ ~(\A i \in 1..Min(Len(s), Len(PrefixBitcoin)) :
            to_ascii_lowercase(s[i]) = PrefixBitcoin[i])
    \/ Len(s) < 8

\* str::parse::<bitcoin::Address>(): the addresses that parse, with their
\* script.
ParseAddress(a) ==
    IF a = <<"a", "d", "d", "r">> THEN [err |-> "Ok", value |-> PayeeScript]
    ELSE [err |-> "Address", value |-> PayeeScript]

\* Amount::from_str_in(s, Denomination::Bitcoin), in satoshi.
ParseAmount(a) ==
    IF a = <<"1">> THEN [err |-> "Ok", value |-> 100000000]
    ELSE IF a = <<"0", ".", "0", "0", "0", "0", "3">> THEN [err |-> "Ok", value |-> 3000]
    ELSE [err |-> "Amount", value |-> 0]

\* A pjos parser with the two values exchanged.
ParsePjosInverted(a) ==
    IF a = <<"0">> THEN [err |-> "Ok", value |-> FALSE]
    ELSE IF a = <<"1">> THEN [err |-> "Ok", value |-> TRUE]
    ELSE [err |-> "BadPjos", value |-> FALSE]

\* The closure given for "pjos=": "0" disables output substitution.
ParsePjos(a) ==
    IF a = <<"0">> THEN [err |-> "Ok", value |-> TRUE]
    ELSE IF a = <<"1">> THEN [err |-> "Ok", value |-> FALSE]
    ELSE [err |-> "BadPjos", value |-> FALSE]

\* The closure given for "pj=".
ParseEndpoint(a) ==
    IF StartsWith(a, SchemeHttps) \/ StartsWith(a, SchemeHttp)
    THEN [err |-> "Ok", value |-> a]
    ELSE [err |-> "PjBadSchema", value |-> a]

\* match_kv: out unchanged when kv does not start with prefix; otherwise the
\* parser's error, or DuplicateKey when out is already set, or out set to
\* the parsed value (parsed is fun applied to the text after the prefix).
match_kv(kv, prefix, out, parsed) ==
    IF ~StartsWith(kv, prefix) THEN [err |-> "Ok", out |-> out]
    ELSE IF parsed.err # "Ok" THEN [err |-> parsed.err, out |-> out]
    ELSE IF IsSome(out) THEN [err |-> "DuplicateKey", out |-> out]
    ELSE [err |-> "Ok", out |-> Some(parsed.value)]

\* The loop over the parameters from kvs[i], with what was found so far.
RECURSIVE ParseParams(_, _, _, _, _)
ParseParams(kvs, i, amount, endpoint, disable_pjos) ==
    IF i > Len(kvs)
    THEN [err |-> "Ok", amount |-> amount, endpoint |-> endpoint,
          disable_pjos |-> disable_pjos]
    ELSE
    LET kv == kvs[i]
        a == match_kv(kv, PrefixAmount, amount, ParseAmount(After(kv, PrefixAmount)))
        d == match_kv(kv, PrefixPjos, disable_pjos, ParsePjos(After(kv, PrefixPjos)))
        e == match_kv(kv, PrefixPj, endpoint, ParseEndpoint(After(kv, PrefixPj)))
        failed(err) == [err |-> err, amount |-> amount, endpoint |-> endpoint,
                        disable_pjos |-> disable_pjos]
    IN  IF a.err # "Ok" THEN failed(a.err)
        ELSE IF d.err # "Ok" THEN failed(d.err)
        ELSE IF e.err # "Ok" THEN failed(e.err)
        ELSE ParseParams(kvs, i + 1, a.out, e.out, d.out)

\* A Uri::try_from that reads the parameters before it parses the address.
UriTryFromParamsFirst(s) ==
    IF BadSchema(s) THEN [result |-> "Bip21BadSchema"]
    ELSE
    LET uri_without_prefix == After(s, PrefixBitcoin)
        question_mark_pos == Find(uri_without_prefix, "?")
    IN  IF question_mark_pos = 0 THEN [result |-> "PjNotPresent"]
        ELSE
        LET address == ParseAddress(SubSeq(uri_without_prefix, 1, question_mark_pos - 1))
            kvs == Split(SubSeq(uri_without_prefix, question_mark_pos + 1,
                                Len(uri_without_prefix)), "&")
            p == ParseParams(kvs, 1, NoneOpt, NoneOpt, NoneOpt)
        IN  IF p.err # "Ok" THEN [result |-> p.err]
            ELSE IF ~IsSome(p.endpoint) /\ ~IsSome(p.disable_pjos)
            THEN [result |-> "PjNotPresent"]
            ELSE IF address.err # "Ok" THEN [result |-> address.err]
            ELSE IF IsSome(p.amount) /\ IsSome(p.endpoint)
            THEN [result |-> "Ok", address |-> address.value,
                  amount |-> Unwrap(p.amount), endpoint |-> Unwrap(p.endpoint),
                  disable_output_substitution |->
                      IF IsSome(p.disable_pjos) THEN Unwrap(p.disable_pjos) ELSE FALSE]
            ELSE IF IsSome(p.endpoint) THEN [result |-> "MissingAmount"]
            ELSE IF ~IsSome(p.amount) THEN [result |-> "MissingAmountAndEndpoint"]
            ELSE [result |-> "MissingEndpoint"]

\* Uri::try_from
UriTryFrom(s) ==
    IF BadSchema(s) THEN [result |-> "Bip21BadSchema"]
    ELSE
    LET uri_without_prefix == After(s, PrefixBitcoin)
        question_mark_pos == Find(uri_without_prefix, "?")
    IN  IF question_mark_pos = 0 THEN [result |-> "PjNotPresent"]
        ELSE
        LET address == ParseAddress(SubSeq(uri_without_prefix, 1, question_mark_pos - 1))
            kvs == Split(SubSeq(uri_without_prefix, question_mark_pos + 1,
                                Len(uri_without_prefix)), "&")
            p == ParseParams(kvs, 1, NoneOpt, NoneOpt, NoneOpt)
        IN  IF address.err # "Ok" THEN [result |-> address.err]
            ELSE IF p.err # "Ok" THEN [result |-> p.err]
            ELSE IF ~IsSome(p.endpoint) /\ ~IsSome(p.disable_pjos)
            THEN [result |-> "PjNotPresent"]
            ELSE IF IsSome(p.amount) /\ IsSome(p.endpoint)
            THEN [result |-> "Ok", address |-> address.value,
                  amount |-> Unwrap(p.amount), endpoint |-> Unwrap(p.endpoint),
                  disable_output_substitution |->
                      IF IsSome(p.disable_pjos) THEN Unwrap(p.disable_pjos) ELSE FALSE]
            ELSE IF IsSome(p.endpoint) THEN [result |-> "MissingAmount"]
            ELSE IF ~IsSome(p.amount) THEN [result |-> "MissingAmountAndEndpoint"]
            ELSE [result |-> "MissingEndpoint"]

\* The texts handed to Uri::try_from: a scheme, an address and, after "?",
\* up to MaxParams parameters joined by "&".
UriSchemes == {<<"b", "i", "t", "c", "o", "i", "n", ":">>,
               <<"B", "I", "T", "C", "O", "I", "N", ":">>,
               <<"b", "i", "t", "c", "o", "i", "m", ":">>}

UriAddresses == {<<"a", "d", "d", "r">>, <<"n", "o", "p", "e">>}

UriParams ==
    {<<"a", "m", "o", "u", "n", "t", "=", "1">>,
     <<"a", "m", "o", "u", "n", "t", "=", "0", ".", "0", "0", "0", "0", "3">>,
     <<"a", "m", "o", "u", "n", "t", "=", "x">>,
     <<"p", "j", "o", "s", "=", "0">>,
     <<"p", "j", "o", "s", "=", "1">>,
     <<"p", "j", "o", "s", "=", "2">>,
     <<"p", "j", "=", "h", "t", "t", "p", "s", ":", "/", "/", "e">>,
     <<"p", "j", "=", "h", "t", "t", "p", ":", "/", "/", "e">>,
     <<"p", "j", "=", "f", "t", "p", ":", "/", "/", "e">>,
     <<"l", "a", "b", "e", "l", "=", "a">>}

\* The texts that stop at or before the end of the scheme: the empty one,
\* "bitcoin" and "bitcoin:".
UriFragments == {<<>>, SubSeq(PrefixBitcoin, 1, 7), PrefixBitcoin}

RECURSIVE Join(_, _)
Join(kvs, c) ==
    IF kvs = <<>> THEN <<>>
    ELSE IF Len(kvs) = 1 THEN kvs[1]
    ELSE kvs[1] \o <<c>> \o Join(Tail(kvs), c)

\* Uri::try_from
ParseUri ==
    /\ uriResult.result = None
    /\ uriResult' = UriTryFrom(uriStr)
    /\ UNCHANGED <<uriStr, stateVars, receiverVars, senderVars, checkVars>>

(***************************************************************************)
(* Idle values of the variables a specification does not use.              *)
(***************************************************************************)
IdleState ==
    /\ st = [e \in Exchanges |-> [phase |-> "Dropped", flag |-> FALSE,
                                   psbt |-> [tx_ins |-> 0, psbt_ins |-> 0,
                                             tx_outs |-> 0, psbt_outs |-> 0],
                                   trail |-> <<>>]]
    /\ call = [e \in Exchanges |-> NoCall]
    /\ observed = [e \in Exchanges |-> NoObservation]

IdleReceiver ==
    /\ request = NoRequest
    /\ reqResult = "Idle"
    /\ bytesRead = 0

IdleSender ==
    /\ original = [psbt |-> None]
    /\ created = [result |-> "Idle"]
    /\ response = [decodes |-> FALSE]
    /\ outcome = [result |-> "Idle"]

IdleCheck ==
    /\ unchecked = NoUnchecked
    /\ checked = [result |-> "Idle"]
    /\ checker = NewChecker

IdleUri ==
    /\ uriStr = <<>>
    /\ uriResult = [result |-> "Idle"]

(***************************************************************************)
(* SpecState: the phase machine.                                           *)
(***************************************************************************)
InitState ==
    /\ st \in [Exchanges -> {[phase |-> "Psbt", flag |-> FALSE, psbt |-> p,
                              trail |-> <<>>] : p \in RawPsbts}]
    /\ call = [e \in Exchanges |-> NoCall]
    /\ observed = [e \in Exchanges |-> NoObservation]
    /\ IdleReceiver
    /\ IdleSender
    /\ IdleCheck
    /\ IdleUri

NextState ==
    \E e \in Exchanges :
        \/ TryNextValidated(e)
        \/ FromValidated(e)
        \/ SetFlag(e)
        \/ \E onClone \in BOOLEAN : TryNext(e, onClone)

SpecState == InitState /\ [][NextState]_vars

(***************************************************************************)
(* SpecObserve: the phase machine on PSBTs with inputs, and what the       *)
(* phases expose. Exchange "a" holds any PSBT, exchange "b" the empty one. *)
(***************************************************************************)
InitObserve ==
    /\ \E n \in 0..MaxObserved : \E p \in ObservedPsbts(n) :
          st = [e \in Exchanges |->
                  [phase |-> "Psbt", flag |-> FALSE,
                   psbt |-> IF e = "a" THEN p ELSE ObservedPsbt(<<>>, <<>>),
                   trail |-> <<>>]]
    /\ call = [e \in Exchanges |-> NoCall]
    /\ observed = [e \in Exchanges |-> NoObservation]
    /\ IdleReceiver
    /\ IdleSender
    /\ IdleCheck
    /\ IdleUri

NextObserve ==
    \E e \in Exchanges :
        \/ TryNextValidated(e)
        \/ FromValidated(e)
        \/ SetFlag(e)
        \/ \E onClone \in BOOLEAN : TryNext(e, onClone)
        \/ ScriptPubkeys(e)
        \/ Outpoints(e)

SpecObserve == InitObserve /\ [][NextObserve]_vars

(***************************************************************************)
(* SpecCarry: one proposal's PSBT taken through the phases of state.rs and *)
(* through UncheckedProposal::check.                                       *)
(***************************************************************************)
\* The PSBT with the four counts try_from takes from it.
CarriedPsbt(psbt) ==
    [tx_ins |-> Len(psbt.global.unsigned_tx.input), psbt_ins |-> Len(psbt.inputs),
     tx_outs |-> Len(psbt.global.unsigned_tx.output), psbt_outs |-> Len(psbt.outputs),
     global |-> psbt.global, inputs |-> psbt.inputs, outputs |-> psbt.outputs]

InitCarry ==
    /\ \E n \in 0..MaxCheckInputs : unchecked \in UncheckedProposals(n)
    /\ checked = [result |-> None]
    /\ checker = NewChecker
    /\ st = [e \in Exchanges |->
               IF e = "a"
               THEN [phase |-> "Psbt", flag |-> FALSE,
                     psbt |-> CarriedPsbt(unchecked.psbt), trail |-> <<>>]
               ELSE [phase |-> "Dropped", flag |-> FALSE,
                     psbt |-> [tx_ins |-> 0, psbt_ins |-> 0, tx_outs |-> 0, psbt_outs |-> 0],
                     trail |-> <<>>]]
    /\ call = [e \in Exchanges |-> NoCall]
    /\ observed = [e \in Exchanges |-> NoObservation]
    /\ IdleReceiver
    /\ IdleSender
    /\ IdleUri

NextCarry ==
    \/ TryNextValidated("a")
    \/ FromValidated("a")
    \/ SetFlag("a")
    \/ \E onClone \in BOOLEAN : TryNext("a", onClone)
    \/ Check

SpecCarry == InitCarry /\ [][NextCarry]_vars

(***************************************************************************)
(* SpecReceiver: request intake.                                           *)
(***************************************************************************)
InitReceiver ==
    /\ request \in [content_type : ContentTypes, content_length : ContentLengths,
                    body : Bodies]
    /\ reqResult = None
    /\ bytesRead = 0
    /\ IdleState
    /\ IdleSender
    /\ IdleCheck
    /\ IdleUri

NextReceiver == FromRequest

SpecReceiver == InitReceiver /\ [][NextReceiver]_vars

(***************************************************************************)
(* SpecCheck: the receiver's checks of an UncheckedProposal.               *)
(***************************************************************************)
InitCheck ==
    /\ \E n \in 0..MaxCheckInputs : unchecked \in UncheckedProposals(n)
    /\ checked = [result |-> None]
    /\ checker = NewChecker
    /\ IdleState
    /\ IdleReceiver
    /\ IdleSender
    /\ IdleUri

NextCheck == Check

SpecCheck == InitCheck /\ [][NextCheck]_vars

(***************************************************************************)
(* SpecSeen: one BitcoindChecker checking proposal after proposal.         *)
(***************************************************************************)
InitSeen ==
    /\ unchecked = NoUnchecked
    /\ checked = [result |-> None]
    /\ checker = NewChecker
    /\ IdleState
    /\ IdleReceiver
    /\ IdleSender
    /\ IdleUri

NextSeen == CheckWithChecker

SpecSeen == InitSeen /\ [][NextSeen]_vars

(***************************************************************************)
(* SpecUri: parsing a BIP21 PayJoin URI.                                   *)
(***************************************************************************)
InitUri ==
    /\ \/ uriStr \in UriFragments
       \/ \E scheme \in UriSchemes, address \in UriAddresses :
             \/ uriStr = scheme \o address
             \/ \E kvs \in SeqsUpTo(UriParams, MaxParams) :
                   uriStr = scheme \o address \o <<"?">> \o Join(kvs, "&")
    /\ uriResult = [result |-> None]
    /\ IdleState
    /\ IdleReceiver
    /\ IdleSender
    /\ IdleCheck

NextUri == ParseUri

SpecUri == InitUri /\ [][NextUri]_vars

(***************************************************************************)
(* SpecCreate: building the request.                                       *)
(***************************************************************************)
InitCreate ==
    /\ \E pay \in PayAmounts, n \in 0..2, psbtin \in CreateInputChoices,
          junk \in {{}, {1}},
          flags \in {<<FALSE, FALSE>>, <<TRUE, FALSE>>, <<FALSE, TRUE>>},
          clamp \in BOOLEAN, fc \in CreateFeeContributions :
            \E outs \in SeqsUpTo(CreateOutputChoices(pay), MaxOrigOutputs) :
                original = CreateOriginal(pay, n, psbtin, outs, junk, flags, clamp, fc)
    /\ created = NoContext
    /\ response = [decodes |-> FALSE]
    /\ outcome = [result |-> None]
    /\ IdleState
    /\ IdleReceiver
    /\ IdleCheck
    /\ IdleUri

NextCreate == CreateRequest

SpecCreate == InitCreate /\ [][NextCreate]_vars

(***************************************************************************)
(* Spec: the sender's exchange, create_request then process_response.      *)
(***************************************************************************)
Init ==
    /\ original \in SenderOriginals
    /\ created = NoContext
    /\ response = [decodes |-> FALSE]
    /\ outcome = [result |-> None]
    /\ IdleState
    /\ IdleReceiver
    /\ IdleCheck
    /\ IdleUri

Next ==
    \/ CreateRequest
    \/ ProcessResponse

Spec == Init /\ [][Next]_vars

(***************************************************************************)
(* SpecInputs: the sender's exchange on proposals that probe check_inputs. *)
(***************************************************************************)
InitInputs ==
    /\ \E seqs \in InputOriginalSequences : original = InputOriginal(seqs)
    /\ created = NoContext
    /\ response = [decodes |-> FALSE]
    /\ outcome = [result |-> None]
    /\ IdleState
    /\ IdleReceiver
    /\ IdleCheck
    /\ IdleUri

NextInputs ==
    \/ CreateRequest
    \/ ProcessResponseOnInputs

SpecInputs == InitInputs /\ [][NextInputs]_vars

(***************************************************************************)
(* SpecFees: the sender's exchange on originals of any fee, and proposals  *)
(* that reach check_fees.                                                  *)
(***************************************************************************)
InitFees ==
    /\ \E n \in 1..MaxFundedInputs :
          \E change \in FeeChangeValues(n),
             fc \in {NoneOpt, Some([amount |-> 400, index |-> NoneOpt])} :
                original = FeeOriginal(n, change, fc)
    /\ created = NoContext
    /\ response = [decodes |-> FALSE]
    /\ outcome = [result |-> None]
    /\ IdleState
    /\ IdleReceiver
    /\ IdleCheck
    /\ IdleUri

NextFees ==
    \/ CreateRequest
    \/ ProcessResponseOnFees

SpecFees == InitFees /\ [][NextFees]_vars

(***************************************************************************)
(* Properties of the receiver phase machine (SpecState).                   *)
(***************************************************************************)
\* C1: on each guarded phase (MaybeUnbroadcastable, MaybeInputsOwned,
\* MaybePrevoutsSeen) try_next returns Ok exactly when the phase's flag is
\* set; with the flag unset it returns the error Todo and the value does not
\* move to a successor phase, with the flag set the value moves to the next
\* phase.
C1_TryNextNeedsFlag ==
    [][\A e \in Exchanges :
         (st[e].phase \in GuardedPhases
            /\ (call'[e] # call[e] \/ st'[e].phase # st[e].phase))
         => /\ call'[e].from = st[e].phase
            /\ call'[e].result = "Ok" <=> st[e].flag
            /\ IF st[e].flag
               THEN st'[e].phase = PhaseOrder[PhaseIndex(st[e].phase) + 1]
               ELSE /\ call'[e].result = "Todo"
                    /\ st'[e].phase \in {st[e].phase, "Dropped"}]_vars

\* A try_next refused on MaybeInputsOwned because its flag was unset.
C1_Witness ==
    \E e \in Exchanges :
        /\ call[e] = [from |-> "MaybeInputsOwned", flag |-> FALSE, result |-> "Todo"]
        /\ st[e].phase = "Dropped"

\* C2: the phases a value has been through are always an initial part of
\* Validated, MaybeUnbroadcastable, MaybeInputsOwned, MaybePrevoutsSeen,
\* Proposal, ending in its current phase; a value in phase Proposal has been
\* through all five in that order.
C2_PhasesInOrder ==
    \A e \in Exchanges :
        /\ IsPrefix(st[e].trail, PhaseOrder)
        /\ st[e].phase \notin {"Psbt", "Dropped"}
             => /\ st[e].trail # <<>>
                /\ st[e].trail[Len(st[e].trail)] = st[e].phase
        /\ st[e].phase = "Proposal" => st[e].trail = PhaseOrder

C2_Witness == \E e \in Exchanges : st[e].phase = "Proposal"

\* The values one operation can turn a value into when it is the only value
\* there is: the conversion of a PSBT, the step out of Validated, setting
\* the flag of a guarded phase, and try_next on a guarded phase.
LoneSteps(v) ==
    IF v.phase = "Psbt"
    THEN IF v.psbt.psbt_ins = v.psbt.tx_ins /\ v.psbt.psbt_outs = v.psbt.tx_outs
         THEN {[v EXCEPT !.phase = "Validated", !.trail = <<"Validated">>]}
         ELSE {[v EXCEPT !.phase = "Dropped"]}
    ELSE IF v.phase = "Validated"
    THEN {[v EXCEPT !.phase = "MaybeUnbroadcastable", !.flag = FALSE,
                    !.trail = Append(@, "MaybeUnbroadcastable")]}
    ELSE IF v.phase \in GuardedPhases
    THEN IF v.flag
         THEN {[v EXCEPT !.phase = PhaseOrder[PhaseIndex(v.phase) + 1], !.flag = FALSE,
                         !.trail = Append(@, PhaseOrder[PhaseIndex(v.phase) + 1])]}
         ELSE {[v EXCEPT !.flag = TRUE], [v EXCEPT !.phase = "Dropped"]}
    ELSE {}

\* C33: in every interleaving of the operations on two state values, a
\* step that changes one value (its phase, flag, PSBT or what try_next
\* returned on it) leaves the other value as it was, and turns the value it
\* changes into one that the same value could become if it were alone.
C33_ExchangesIndependent ==
    [][\A e \in Exchanges :
         (st'[e] # st[e] \/ call'[e] # call[e])
         => /\ \A f \in Exchanges \ {e} :
                  /\ st'[f] = st[f]
                  /\ call'[f] = call[f]
                  /\ observed'[f] = observed[f]
            /\ st'[e] = st[e] \/ st'[e] \in LoneSteps(st[e])]_vars

\* One value has gone all the way to Proposal while the other, holding
\* another PSBT, waits in a guarded phase with its flag unset.
C33_Witness ==
    /\ st["a"].phase = "Proposal"
    /\ st["b"].phase = "MaybeUnbroadcastable"
    /\ ~st["b"].flag
    /\ st["a"].psbt # st["b"].psbt

\* C34: a value that a transition has just put into a guarded phase has
\* its flag unset, also when the transition was allowed by the flag of the
\* phase before; so a value leaves each of the three guarded phases only
\* after its flag was set in that phase.
C34_FlagStartsUnset ==
    [][\A e \in Exchanges :
         st'[e].phase # st[e].phase
         => /\ st'[e].phase \in GuardedPhases => ~st'[e].flag
            /\ (st[e].phase \in GuardedPhases /\ st'[e].phase # "Dropped")
               => /\ st[e].flag
                  /\ st'[e].phase = PhaseOrder[PhaseIndex(st[e].phase) + 1]]_vars

\* A value that has just entered MaybeInputsOwned on the strength of the
\* flag of MaybeUnbroadcastable, its own flag unset.
C34_Witness ==
    \E e \in Exchanges :
        /\ st[e].phase = "MaybeInputsOwned"
        /\ ~st[e].flag
        /\ call[e] = [from |-> "MaybeUnbroadcastable", flag |-> TRUE, result |-> "Ok"]

(***************************************************************************)
(* Properties of request intake (SpecReceiver).                            *)
(***************************************************************************)
\* C8: with a text/plain content type and a numeric content-length, a
\* content-length above 4_000_000 * 4 / 3 = 5333333 is refused with
\* ContentLengthTooLarge and no byte of the body has been read; a
\* content-length of 5333333 or less is never refused as too large.
C8_SizeCeiling ==
    (reqResult \notin {None, "Idle"} /\ request.content_type = "text/plain"
       /\ request.content_length.kind = "number")
    => /\ request.content_length.value > 5333333
            => (reqResult = "ContentLengthTooLarge" /\ bytesRead = 0)
       /\ request.content_length.value <= 5333333
            => reqResult # "ContentLengthTooLarge"

\* An oversize request with a body that was refused unread, and the largest
\* admitted length.
C8_Witness ==
    /\ reqResult = "ContentLengthTooLarge"
    /\ request.content_length.value = 5333334
    /\ request.body.len > 0
    /\ bytesRead = 0

\* C16: from_request consumes no more bytes of the body than the
\* content-length header declares, however long the body is, and none at
\* all when the headers are refused.
C16_ReadWithinContentLength ==
    reqResult \notin {None, "Idle"} =>
        /\ bytesRead > 0 => (/\ request.content_length.kind = "number"
                              /\ bytesRead <= request.content_length.value)
        /\ bytesRead <= request.body.len
        /\ reqResult \notin {"Ok", "Decode"} => bytesRead = 0

\* A body longer than its declared length, read up to the declared length
\* and no further.
C16_Witness ==
    /\ reqResult = "Decode"
    /\ request.content_length.value > 0
    /\ request.body.len > request.content_length.value
    /\ bytesRead = request.content_length.value

(***************************************************************************)
(* Properties of the request builder (SpecCreate).                         *)
(***************************************************************************)
Sanitized(psbt) ==
    /\ psbt.global.xpub = {} /\ psbt.global.proprietary = {} /\ psbt.global.unknown = {}
    /\ \A i \in 1..Len(psbt.inputs) :
          /\ psbt.inputs[i].bip32_derivation = {}
          /\ psbt.inputs[i].proprietary = {}
          /\ psbt.inputs[i].unknown = {}
    /\ \A i \in 1..Len(psbt.outputs) :
          /\ psbt.outputs[i].bip32_derivation = {}
          /\ psbt.outputs[i].proprietary = {}
          /\ psbt.outputs[i].unknown = {}

StrippedFields == {"xpub", "proprietary", "unknown", "bip32_derivation"}

\* C9: clear_unneeded_fields applied twice gives the same PSBT, and the same
\* encoding, as applied once; its result has no xpub, proprietary or unknown
\* entry at global scope and no bip32_derivation, proprietary or unknown
\* entry on any input or output; and when create_request succeeds, the PSBT
\* in the Context and the body of the Request are free of these entries.
C9_Sanitization ==
    created.result \notin {None, "Idle"} =>
        LET once == clear_unneeded_fields(original.psbt)
            twice == clear_unneeded_fields(once)
        IN  /\ twice = once
            /\ serialize_psbt(twice) = serialize_psbt(once)
            /\ Sanitized(once)
            /\ created.result = "Ok" =>
                 /\ Sanitized(created.ctx.original_psbt)
                 /\ created.request.body = serialize_psbt(created.ctx.original_psbt)
                 /\ \A k \in 1..Len(created.request.body.records) :
                       created.request.body.records[k].field \notin StrippedFields

\* A request built from a PSBT that carried wallet fields at every scope.
C9_Witness ==
    /\ created.result = "Ok"
    /\ original.psbt.global.xpub # {}
    /\ original.psbt.inputs[1].bip32_derivation # {}
    /\ original.psbt.outputs[1].unknown # {}

\* The indexes (from 1) of the outputs of the PSBT handed to create_request
\* that pay to the URI's address.
PayeeOutputs ==
    {i \in 1..Len(original.psbt.global.unsigned_tx.output) :
        original.psbt.global.unsigned_tx.output[i].script_pubkey = original.uri.address}

RightValued(i) == original.psbt.global.unsigned_tx.output[i].value = original.uri.amount

\* C13: create_request succeeds only if exactly one output pays to the URI
\* address's script and its value is the URI amount. When the inputs carry
\* their funding outputs: with no output to that script it fails with
\* MissingPayeeOutput; when the first output to that script of another
\* value comes before a second one of the right value, with
\* PayeeValueNotEqual; when two outputs to that script of the right value
\* come before any of another value, with MultiplePayeeOutputs.
C13_SinglePayee ==
    created.result \notin {None, "Idle"} =>
        /\ created.result = "Ok"
             => (Cardinality(PayeeOutputs) = 1 /\ \A i \in PayeeOutputs : RightValued(i))
        /\ validate_input_utxos(original.psbt) =>
             /\ PayeeOutputs = {} => created.result = "MissingPayeeOutput"
             /\ (\E i \in PayeeOutputs :
                    /\ ~RightValued(i)
                    /\ Cardinality({j \in PayeeOutputs : j < i}) <= 1
                    /\ \A j \in PayeeOutputs : j < i => RightValued(j))
                  => created.result = "PayeeValueNotEqual"
             /\ (\E i, j \in PayeeOutputs :
                    /\ i < j
                    /\ \A k \in PayeeOutputs : k <= j => RightValued(k))
                  => created.result = "MultiplePayeeOutputs"

\* A PSBT with two outputs paying the payee the URI amount, and nothing else
\* to the payee.
C13_Witness ==
    /\ created.result = "MultiplePayeeOutputs"
    /\ Cardinality(PayeeOutputs) = 2
    /\ \A i \in PayeeOutputs : RightValued(i)

\* The fee contribution create_request settles on, told from its arguments:
\* none without Params.fee_contribution; with an index, that index; without
\* one, the output of a two-output PSBT that does not pay the payee (none
\* for a single output); the amount is the maximum asked for, lowered to the
\* value of the fee output when clamping.
ExpectedFeeContribution ==
    LET outs == original.psbt.global.unsigned_tx.output
        fc == original.params.fee_contribution
        clamp == original.params.clamp_fee_contribution
        At(i) == Some([amount |-> IF clamp THEN Min(Unwrap(fc).amount, outs[i + 1].value)
                                  ELSE Unwrap(fc).amount,
                       index |-> i])
    IN  IF ~IsSome(fc) THEN NoneOpt
        ELSE IF IsSome(Unwrap(fc).index) THEN At(Unwrap(Unwrap(fc).index))
        ELSE IF Len(outs) = 1 THEN NoneOpt
        ELSE At(CHOOSE i \in 0..(Len(outs) - 1) : (i + 1) \notin PayeeOutputs)

\* C14: the URL of a Request is the URI's endpoint, then v=1, then
\* disableoutputsubstitution=1 exactly when the URI or the Params disable
\* output substitution, then additionalfeeoutputindex=I and
\* maxadditionalfeecontribution=S exactly when a fee contribution was
\* settled, I its output index and S its amount in satoshi.
C14_RequestUrl ==
    created.result = "Ok" =>
        /\ created.request.url.endpoint = original.uri.endpoint
        /\ created.request.url.query =
             <<[key |-> "v", value |-> 1]>>
             \o (IF original.uri.disable_output_substitution
                      \/ original.params.disable_output_substitution
                 THEN <<[key |-> "disableoutputsubstitution", value |-> 1]>>
                 ELSE <<>>)
             \o (IF IsSome(ExpectedFeeContribution)
                 THEN <<[key |-> "additionalfeeoutputindex",
                         value |-> Unwrap(ExpectedFeeContribution).index],
                        [key |-> "maxadditionalfeecontribution",
                         value |-> Unwrap(ExpectedFeeContribution).amount]>>
                 ELSE <<>>)

\* A request with all four parameters: substitution disabled by the Params
\* alone and a contribution clamped to the value of the fee output.
C14_Witness ==
    /\ created.result = "Ok"
    /\ Len(created.request.url.query) = 4
    /\ ~original.uri.disable_output_substitution
    /\ original.params.disable_output_substitution
    /\ created.request.url.query[4].value < Unwrap(original.params.fee_contribution).amount

(***************************************************************************)
(* Properties of proposal validation (Spec).                               *)
(***************************************************************************)
Called == outcome.result \notin {None, "Idle"}

Accepted == outcome.result = "Ok"

Proposal == response.psbt

Ctx == created.ctx

OutPointsOf(psbt) ==
    [i \in 1..Len(psbt.global.unsigned_tx.input) |->
       psbt.global.unsigned_tx.input[i].previous_output]

\* The value input i of the proposal brings: the original's prevout value
\* for an outpoint of the original, its own funding output otherwise.
ProposalInputValue(i) ==
    LET txin == Proposal.global.unsigned_tx.input[i]
        orig == Ctx.original_psbt
        same == {j \in 1..Len(orig.inputs) :
                   orig.global.unsigned_tx.input[j].previous_output = txin.previous_output}
    IN  IF same # {}
        THEN LET j == CHOOSE x \in same : TRUE IN
             previous_txout(orig.global.unsigned_tx.input[j], orig.inputs[j]).txout.value
        ELSE previous_txout(txin, Proposal.inputs[i]).txout.value

ProposalInTotal == SumSeq([i \in 1..Len(Proposal.inputs) |-> ProposalInputValue(i)])

OutTotalOf(psbt) ==
    SumSeq([i \in 1..Len(psbt.global.unsigned_tx.output) |->
              psbt.global.unsigned_tx.output[i].value])

OriginalInTotal ==
    LET orig == Ctx.original_psbt IN
    SumSeq([i \in 1..Len(orig.inputs) |->
              previous_txout(orig.global.unsigned_tx.input[i], orig.inputs[i]).txout.value])

OriginalFee == OriginalInTotal - OutTotalOf(Ctx.original_psbt)

ProposalFee == ProposalInTotal - OutTotalOf(Proposal)

\* The stages of process_proposal before the fee checks all pass.
ReachesFeeChecks ==
    /\ response.decodes
    /\ basic_checks(Ctx, Proposal) = "Ok"
    /\ check_inputs(Ctx, Proposal).err = "Ok"
    /\ check_outputs(Ctx, Proposal).err = "Ok"

\* C3: an accepted proposal has an output paying the payee script at least
\* the amount the URI asked for.
C3_PayeeEnforced ==
    Accepted =>
        \E i \in 1..Len(Proposal.global.unsigned_tx.output) :
            /\ Proposal.global.unsigned_tx.output[i].script_pubkey = Ctx.payee
            /\ Proposal.global.unsigned_tx.output[i].value >= original.uri.amount

\* C4: the outpoints of the original's inputs are a subsequence of the
\* outpoints of an accepted proposal's inputs; a proposal of which they are
\* not is rejected, with MissingOrShuffledInputs when no check made on a
\* single input fails.
C4_InputsPreserved ==
    Called =>
        /\ Accepted => IsSubseq(OutPointsOf(Ctx.original_psbt), OutPointsOf(Proposal))
        /\ (response.decodes /\ basic_checks(Ctx, Proposal) = "Ok"
              /\ ~IsSubseq(OutPointsOf(Ctx.original_psbt), OutPointsOf(Proposal))
              /\ InputsWalk(Ctx, Proposal, 1, 1, 0, 0).err = "Ok")
           => outcome.result = "MissingOrShuffledInputs"

\* An accepted proposal with a receiver input after the sender's, and the
\* sender's input in place.
C4_Witness ==
    /\ Accepted
    /\ Len(Proposal.inputs) > Len(Ctx.original_psbt.inputs)
    /\ IsSubseq(OutPointsOf(Ctx.original_psbt), OutPointsOf(Proposal))

\* The amount by which the sender's fee output is lower in the proposal than
\* in the original (the whole of it when the proposal has no such output).
ContributedFee ==
    IF ~IsSome(Ctx.fee_contribution) THEN 0
    ELSE LET fee_output ==
                 Ctx.original_psbt.global.unsigned_tx.output[
                     Unwrap(Ctx.fee_contribution).index + 1]
             outs == Proposal.global.unsigned_tx.output
             same == {i \in 1..Len(outs) : outs[i].script_pubkey = fee_output.script_pubkey}
         IN  IF same = {} THEN fee_output.value
             ELSE LET i == CHOOSE x \in same : \A y \in same : x <= y IN
                  IF outs[i].value < fee_output.value
                  THEN fee_output.value - outs[i].value
                  ELSE 0

\* C5: in an accepted proposal the contributed fee is at most
\* max_fee_contribution and at most original_fee_rate *
\* expected_input_weight(input_type) * added_input_count.
C5_BoundedContribution ==
    (Accepted /\ IsSome(Ctx.fee_contribution)) =>
        ContributedFee <=
            Min(Unwrap(Ctx.fee_contribution).amount,
                (OriginalFee \div TxWeight(Ctx.original_psbt.global.unsigned_tx))
                  * expected_input_weight(Ctx.input_type)
                  * (Len(Proposal.inputs) - Len(Ctx.original_psbt.inputs)))

\* C6: the input value of an accepted proposal is at least the sum of its
\* outputs; a proposal that passes the stages before the fee checks with
\* outputs exceeding inputs is rejected with Inflation.
C6_NoInflation ==
    Called =>
        /\ Accepted => ProposalInTotal >= OutTotalOf(Proposal)
        /\ (ReachesFeeChecks /\ OutTotalOf(Proposal) > ProposalInTotal)
           => outcome.result = "Inflation"

C6_Witness ==
    /\ outcome.result = "Inflation"
    /\ OutTotalOf(Proposal) > ProposalInTotal

\* C7: the fee of an accepted proposal is at least the original's fee; a
\* proposal that passes the earlier checks with a lower fee is rejected with
\* AbsoluteFeeDecreased.
C7_MonotoneFee ==
    Called =>
        /\ Accepted => ProposalFee >= OriginalFee
        /\ (ReachesFeeChecks /\ OutTotalOf(Proposal) <= ProposalInTotal
              /\ ProposalFee < OriginalFee)
           => outcome.result = "AbsoluteFeeDecreased"

C7_Witness ==
    /\ outcome.result = "AbsoluteFeeDecreased"
    /\ ProposalFee < OriginalFee
    /\ ProposalFee >= 0

BasicErrors == {"VersionsDontMatch", "LockTimesDontMatch"}

InputErrors ==
    {"TxInContainsKeyPaths", "ContainsPartialSigs", "SenderTxinSequenceChanged",
     "SenderTxinContainsNonWitnessUtxo", "SenderTxinContainsWitnessUtxo",
     "SenderTxinContainsFinalScriptSig", "SenderTxinContainsFinalScriptWitness",
     "ReceiverTxinMissingUtxoInfo", "MixedSequence", "InvalidProposedInput",
     "UnknownInputType", "MixedInputTypes", "MissingOrShuffledInputs"}

OutputErrors ==
    {"TxOutContainsKeyPaths", "FeeContributionExceedsMaximum",
     "DisallowedOutputSubstitution", "OutputValueDecreased", "MissingOrShuffledOutputs"}

FeeErrors ==
    {"Inflation", "AbsoluteFeeDecreased", "PayeeTookContributedFee",
     "FeeContributionPaysOutputSizeIncrease"}

\* C10: process_response reports the first failure in the order decode,
\* version, lock_time, inputs, outputs, fees: the error is Decode exactly
\* when the body does not decode; otherwise a version mismatch gives
\* VersionsDontMatch, else a lock_time mismatch LockTimesDontMatch, else a
\* failing input stage its error, else a failing output stage its error, and
\* a fee error is returned only when every earlier stage passes.
C10_FirstFailureInOrder ==
    Called =>
        /\ outcome.result = "Decode" <=> ~response.decodes
        /\ response.decodes =>
             LET orig_tx == Ctx.original_psbt.global.unsigned_tx
                 tx == Proposal.global.unsigned_tx
                 basic_ok == tx.version = orig_tx.version /\ tx.lock_time = orig_tx.lock_time
                 ins == check_inputs(Ctx, Proposal).err
                 outs == check_outputs(Ctx, Proposal).err
             IN  /\ tx.version # orig_tx.version => outcome.result = "VersionsDontMatch"
                 /\ (tx.version = orig_tx.version /\ tx.lock_time # orig_tx.lock_time)
                      => outcome.result = "LockTimesDontMatch"
                 /\ (basic_ok /\ ins # "Ok") => outcome.result = ins
                 /\ (basic_ok /\ ins = "Ok" /\ outs # "Ok") => outcome.result = outs
                 /\ outcome.result \in InputErrors => (basic_ok /\ ins \in InputErrors)
                 /\ outcome.result \in OutputErrors
                      => (basic_ok /\ ins = "Ok" /\ outs \in OutputErrors)
                 /\ outcome.result \in FeeErrors
                      => (basic_ok /\ ins = "Ok" /\ outs = "Ok")

\* A proposal failing the version, the lock_time, the input and the output
\* checks at once.
C10_Witness ==
    /\ outcome.result = "VersionsDontMatch"
    /\ Proposal.global.unsigned_tx.lock_time
         # Ctx.original_psbt.global.unsigned_tx.lock_time
    /\ check_inputs(Ctx, Proposal).err \in InputErrors
    /\ check_outputs(Ctx, Proposal).err \in OutputErrors

\* C11: when validation succeeds the PSBT handed back is exactly the proposal
\* that was received: every input, output and field of it, in the same order.
C11_ProposalUnchanged ==
    Accepted => outcome.psbt = Proposal

\* An accepted proposal that differs from the original PSBT: it has a
\* receiver input, and the sender's inputs carry no funding data.
C11_Witness ==
    /\ Accepted
    /\ outcome.psbt # Ctx.original_psbt
    /\ Len(outcome.psbt.inputs) > Len(Ctx.original_psbt.inputs)

\* C27: try_next on a PSBT fails with UnequalInputCounts when its input-record
\* count differs from its transaction's input count, and otherwise with
\* UnequalOutputCounts when the output counts differ; every value in a
\* phase of the machine holds a PSBT whose counts agree.
C27_CountsAgree ==
    \A e \in Exchanges :
        LET psbt == st[e].psbt IN
        /\ call[e].from = "Psbt" =>
              /\ psbt.psbt_ins # psbt.tx_ins => call[e].result = "UnequalInputCounts"
              /\ (psbt.psbt_ins = psbt.tx_ins /\ psbt.psbt_outs # psbt.tx_outs)
                 => call[e].result = "UnequalOutputCounts"
        /\ (\E i \in 1..Len(PhaseOrder) : st[e].phase = PhaseOrder[i])
           => (psbt.psbt_ins = psbt.tx_ins /\ psbt.psbt_outs = psbt.tx_outs)

\* A PSBT whose input counts and output counts both differ, refused for
\* its inputs, beside a value that reached the last phase.
C27_Witness ==
    /\ call["a"].from = "Psbt"
    /\ call["a"].result = "UnequalInputCounts"
    /\ st["a"].psbt.psbt_ins # st["a"].psbt.tx_ins
    /\ st["a"].psbt.psbt_outs # st["a"].psbt.tx_outs
    /\ st["b"].phase = "Proposal"

(***************************************************************************)
(* Properties of the fee output chosen by create_request (SpecCreate).     *)
(***************************************************************************)
CreateCalled == created.result \notin {None, "Idle"}

\* The original passes the checks that precede determine_fee_contribution:
\* its inputs have their funding outputs and one output pays the payee the
\* URI amount.
ReachesFeeContribution ==
    /\ CreateCalled
    /\ validate_input_utxos(original.psbt)
    /\ Cardinality(PayeeOutputs) = 1
    /\ \A i \in PayeeOutputs : RightValued(i)

\* The original passes the steps that follow determine_fee_contribution: it
\* has an input, of a known input type.
CanFinishCreate ==
    /\ Len(original.psbt.inputs) > 0
    /\ from_spent_input(previous_txout(original.psbt.global.unsigned_tx.input[1],
                                       original.psbt.inputs[1]).txout,
                        original.psbt.inputs[1]).ok

OriginalOuts == original.psbt.global.unsigned_tx.output

AskedFee == original.params.fee_contribution

\* C29: with a fee contribution that names an output index, create_request
\* on an original that passes the earlier checks fails with
\* ChangeIndexOutOfBounds when the index is not below the number of outputs
\* and with ChangeIndexPointsAtPayee when that output pays the payee script;
\* the fee-output index of every Context with a fee contribution is below
\* the number of the original's outputs and names an output that does not
\* pay the payee.
C29_FeeIndexValid ==
    CreateCalled =>
        /\ (ReachesFeeContribution /\ IsSome(AskedFee) /\ IsSome(Unwrap(AskedFee).index))
           => LET index == Unwrap(Unwrap(AskedFee).index) IN
              /\ index >= Len(OriginalOuts) => created.result = "ChangeIndexOutOfBounds"
              /\ (index < Len(OriginalOuts)
                    /\ OriginalOuts[index + 1].script_pubkey = original.uri.address)
                 => created.result = "ChangeIndexPointsAtPayee"
        /\ (created.result = "Ok" /\ IsSome(created.ctx.fee_contribution))
           => LET index == Unwrap(created.ctx.fee_contribution).index
                  outs == created.ctx.original_psbt.global.unsigned_tx.output
              IN  /\ index >= 0
                  /\ index < Len(outs)
                  /\ outs[index + 1].script_pubkey # created.ctx.payee

\* An index inside the outputs that names the payee output.
C29_Witness ==
    /\ created.result = "ChangeIndexPointsAtPayee"
    /\ IsSome(Unwrap(AskedFee).index)
    /\ Unwrap(Unwrap(AskedFee).index) = 1
    /\ Len(OriginalOuts) = 2

\* C30: with a fee contribution that names no index, on an original that
\* passes the earlier checks: with exactly two outputs create_request never
\* fails for the choice of the output, and the Context it returns has the
\* output that does not pay the payee as fee output; with the payee output
\* alone, a clamped contribution becomes no fee contribution and an
\* unclamped one fails with FeeOutputValueLowerThanFeeContribution; with
\* more than two outputs create_request fails with AmbiguousChangeOutput.
C30_FeeOutputFound ==
    (ReachesFeeContribution /\ IsSome(AskedFee) /\ ~IsSome(Unwrap(AskedFee).index))
    => LET n == Len(OriginalOuts)
           clamp == original.params.clamp_fee_contribution
       IN  /\ n = 2 =>
                 /\ created.result \notin {"AmbiguousChangeOutput", "MultiplePayeeOutputs",
                                           "MissingPayeeOutput", "NoOutputs"}
                 /\ created.result = "Ok" =>
                       /\ IsSome(created.ctx.fee_contribution)
                       /\ (Unwrap(created.ctx.fee_contribution).index + 1)
                            \in ((1..2) \ PayeeOutputs)
                 /\ (CanFinishCreate
                       /\ \A i \in (1..2) \ PayeeOutputs :
                             OriginalOuts[i].value >= Unwrap(AskedFee).amount)
                    => created.result = "Ok"
           /\ (n = 1 /\ clamp) =>
                 /\ created.result # "FeeOutputValueLowerThanFeeContribution"
                 /\ created.result = "Ok" => created.ctx.fee_contribution = NoneOpt
                 /\ CanFinishCreate => created.result = "Ok"
           /\ (n = 1 /\ ~clamp)
                 => created.result = "FeeOutputValueLowerThanFeeContribution"
           /\ n > 2 => created.result = "AmbiguousChangeOutput"

\* A two-output original with the payee first: the second output becomes
\* the fee output.
C30_Witness ==
    /\ created.result = "Ok"
    /\ IsSome(AskedFee)
    /\ ~IsSome(Unwrap(AskedFee).index)
    /\ Len(OriginalOuts) = 2
    /\ PayeeOutputs = {1}
    /\ Unwrap(created.ctx.fee_contribution).index = 1

\* The positions (1-based) of the output create_request chooses to pay the
\* fee from: the one the Params name when it exists and does not pay the
\* payee, else the output of a two-output original that does not pay the
\* payee; empty when no output is chosen.
ChosenFeeOutputs ==
    IF ~IsSome(AskedFee) THEN {}
    ELSE IF IsSome(Unwrap(AskedFee).index)
    THEN {i \in 1..Len(OriginalOuts) :
            /\ i = Unwrap(Unwrap(AskedFee).index) + 1
            /\ i \notin PayeeOutputs}
    ELSE IF Len(OriginalOuts) = 2 THEN (1..2) \ PayeeOutputs
    ELSE {}

\* C31: on an original that passes the earlier checks, when the chosen fee
\* output is worth less than the fee contribution asked for, create_request
\* fails with FeeOutputValueLowerThanFeeContribution without clamping and,
\* with clamping, records the output's value as maximum contribution;
\* otherwise it records the amount asked for.  In every Context the
\* maximum fee contribution is at most the amount asked for and at most the
\* value of the fee output.
C31_ContributionClamped ==
    CreateCalled =>
        /\ ReachesFeeContribution =>
             \A i \in ChosenFeeOutputs :
                LET asked == Unwrap(AskedFee).amount
                    value == OriginalOuts[i].value
                    clamp == original.params.clamp_fee_contribution
                    Recorded(a) ==
                        /\ created.result # "FeeOutputValueLowerThanFeeContribution"
                        /\ CanFinishCreate => created.result = "Ok"
                        /\ created.result = "Ok" =>
                              created.ctx.fee_contribution
                                = Some([amount |-> a, index |-> i - 1])
                IN  /\ (value < asked /\ ~clamp)
                         => created.result = "FeeOutputValueLowerThanFeeContribution"
                    /\ (value < asked /\ clamp) => Recorded(value)
                    /\ value >= asked => Recorded(asked)
        /\ (created.result = "Ok" /\ IsSome(created.ctx.fee_contribution))
           => LET fee == Unwrap(created.ctx.fee_contribution) IN
              /\ IsSome(AskedFee)
              /\ fee.amount <= Unwrap(AskedFee).amount
              /\ fee.amount <= OriginalOuts[fee.index + 1].value

\* A clamped contribution: the fee output is worth less than was asked for.
C31_Witness ==
    /\ created.result = "Ok"
    /\ IsSome(created.ctx.fee_contribution)
    /\ IsSome(AskedFee)
    /\ original.params.clamp_fee_contribution
    /\ Unwrap(created.ctx.fee_contribution).amount < Unwrap(AskedFee).amount
    /\ Unwrap(created.ctx.fee_contribution).amount
         = OriginalOuts[Unwrap(created.ctx.fee_contribution).index + 1].value

(***************************************************************************)
(* Properties of the PSBT carried by the receiver (SpecCarry).             *)
(***************************************************************************)
\* C35: no operation on a state value changes the PSBT it holds, so the PSBT
\* of a value in phase Proposal is the one its first conversion was given;
\* and the Proposal that UncheckedProposal::check returns holds the PSBT of
\* the UncheckedProposal.
C35_PsbtCarriedUnchanged ==
    [][/\ \A e \in Exchanges : st'[e].psbt = st[e].psbt
       /\ st'["a"].phase = "Proposal" => st'["a"].psbt = CarriedPsbt(unchecked.psbt)
       /\ checked'.result = "Ok" => checked'.psbt = unchecked.psbt]_vars

\* A proposal with an input that has gone through the phases to Proposal
\* and has passed check.
C35_Witness ==
    /\ st["a"].phase = "Proposal"
    /\ checked.result = "Ok"
    /\ Len(unchecked.psbt.inputs) > 0
    /\ st["a"].psbt.inputs = checked.psbt.inputs

\* The values the URL of the Request gives for a key, in the order written.
RECURSIVE QueryValuesFrom(_, _, _)
QueryValuesFrom(query, key, i) ==
    IF i > Len(query) THEN <<>>
    ELSE (IF query[i].key = key THEN <<query[i].value>> ELSE <<>>)
         \o QueryValuesFrom(query, key, i + 1)

Advertised(key) == QueryValuesFrom(created.request.url.query, key, 1)

\* C37: the body of a Request decodes to the PSBT its Context holds, which
\* is the original with the unneeded fields cleared; the URL carries
\* disableoutputsubstitution=1 exactly when the Context disables output
\* substitution, and carries the Context's fee output index and maximum fee
\* contribution, each once, exactly when the Context has a fee
\* contribution.
C37_RequestMatchesContext ==
    created.result = "Ok" =>
        /\ consensus_decode(created.request.body).ok
        /\ consensus_decode(created.request.body).psbt = created.ctx.original_psbt
        /\ created.ctx.original_psbt = clear_unneeded_fields(original.psbt)
        /\ Advertised("disableoutputsubstitution")
             = (IF created.ctx.disable_output_substitution THEN <<1>> ELSE <<>>)
        /\ IF IsSome(created.ctx.fee_contribution)
           THEN /\ Advertised("additionalfeeoutputindex")
                     = <<Unwrap(created.ctx.fee_contribution).index>>
                /\ Advertised("maxadditionalfeecontribution")
                     = <<Unwrap(created.ctx.fee_contribution).amount>>
           ELSE /\ Advertised("additionalfeeoutputindex") = <<>>
                /\ Advertised("maxadditionalfeecontribution") = <<>>

\* A request built from a PSBT that carried wallet fields, with output
\* substitution disabled and a fee contribution.
C37_Witness ==
    /\ created.result = "Ok"
    /\ original.psbt.global.xpub # {}
    /\ original.psbt.inputs[1].bip32_derivation # {}
    /\ created.ctx.disable_output_substitution
    /\ IsSome(created.ctx.fee_contribution)
    /\ Len(created.request.body.records) > 0

(***************************************************************************)
(* Properties of the fee arithmetic of process_response (SpecFees).        *)
(***************************************************************************)
\* The results process_response gives once check_fees has been entered.
FeeCheckResults ==
    {"Ok", "Inflation", "AbsoluteFeeDecreased", "PayeeTookContributedFee",
     "FeeContributionPaysOutputSizeIncrease", "Panic"}

\* C38: for every Context create_request produced and every response,
\* process_response returns the PSBT or a ValidationError and does not
\* abort, the subtraction that gives the fee of the original included; and
\* when check_fees is reached the proposal has at least as many inputs as
\* the original.
C38_NeverAborts ==
    outcome.result \notin {None, "Idle"} =>
        /\ outcome.result # "Panic"
        /\ outcome.result \in FeeCheckResults
             => Len(response.psbt.inputs) >= Len(created.ctx.original_psbt.inputs)

(***************************************************************************)
(* Properties of the order of from_request's validation (SpecReceiver).    *)
(***************************************************************************)
\* C28: from_request looks at content-type first (absent: MissingHeader,
\* other than "text/plain": InvalidContentType), then at content-length
\* (absent: MissingHeader, not an unsigned integer: InvalidContentLength,
\* above the cap: ContentLengthTooLarge); the body is decoded only when both
\* headers pass, and no byte of it is read when a header is refused.
C28_HeadersInOrder ==
    reqResult \notin {None, "Idle"} =>
        LET typed == request.content_type = "text/plain"
            length == request.content_length
        IN  /\ request.content_type = None => reqResult = "MissingHeader"
            /\ request.content_type \notin {None, "text/plain"}
                 => reqResult = "InvalidContentType"
            /\ (typed /\ length.kind = "absent") => reqResult = "MissingHeader"
            /\ (typed /\ length.kind = "invalid") => reqResult = "InvalidContentLength"
            /\ (typed /\ length.kind = "number" /\ length.value > MaxContentLength)
                 => reqResult = "ContentLengthTooLarge"
            /\ reqResult \in {"Ok", "Decode"}
                 <=> (typed /\ length.kind = "number" /\ length.value <= MaxContentLength)
            /\ reqResult \notin {"Ok", "Decode"} => bytesRead = 0

\* A request of the wrong content-type whose content-length does not parse
\* and whose body is not empty: the content-type is what is reported.
C28_Witness ==
    /\ reqResult = "InvalidContentType"
    /\ request.content_length.kind = "invalid"
    /\ request.body.len > 0
    /\ bytesRead = 0

(***************************************************************************)
(* Properties of what the phases expose (SpecObserve).                     *)
(***************************************************************************)
\* The scriptPubKey of the output that input i of psbt spends.
SpentScript(psbt, i) ==
    previous_txout(psbt.global.unsigned_tx.input[i], psbt.inputs[i]).txout.script_pubkey

\* C26: script_pubkeys on a MaybeInputsOwned value yields, for each input in
\* transaction order, the scriptPubKey of the output that input spends, and
\* outpoints on a MaybePrevoutsSeen value yields each input's outpoint in
\* the same order.
C26_PhasesExpose ==
    \A e \in Exchanges :
        LET psbt == st[e].psbt
            n == Len(psbt.global.unsigned_tx.input)
        IN  /\ observed[e].method = "script_pubkeys"
                 => observed[e].items = [i \in 1..n |-> SpentScript(psbt, i)]
            /\ observed[e].method = "outpoints"
                 => observed[e].items =
                      [i \in 1..n |-> psbt.global.unsigned_tx.input[i].previous_output]

(***************************************************************************)
(* Properties of check driven by a BitcoindChecker (SpecSeen).             *)
(***************************************************************************)
CheckRan == checked.result \notin {None, "Idle"}

\* C24: in every run of check the first call is unbroacastable, made once,
\* and no owned call comes after an already_seen call: the prevouts are
\* queried only once the ownership of every input has been checked.
C24_StagesInOrder ==
    CheckRan =>
        LET calls == checker.calls IN
        /\ calls # <<>>
        /\ calls[1].query = "unbroacastable"
        /\ \A a \in 2..Len(calls) : calls[a].query # "unbroacastable"
        /\ \A a, b \in 1..Len(calls) :
              (a < b /\ calls[a].query = "already_seen") => calls[b].query # "owned"

\* The proposal checked in the next state spends an outpoint of a proposal
\* that has passed check on this checker.
SpendsPassed == Spent(unchecked'.psbt) \cap checker.passed # {}

\* The position of the first input of the next proposal that spends an
\* outpoint of a passed proposal.
FirstPassed ==
    LET txins == unchecked'.psbt.global.unsigned_tx.input IN
    CHOOSE i \in 1..Len(txins) :
        /\ txins[i].previous_output \in checker.passed
        /\ \A k \in 1..(i - 1) : txins[k].previous_output \notin checker.passed

C36_RejectionRecordsNothing ==
    [][(checked' # checked \/ checker' # checker \/ unchecked' # unchecked)
       => (checked'.result \in {"TxUnbroadcastable", "MissingPrevout", "TxinOwned",
                                 "TxinAlreadySeen"}
             => checker'.seen = checker.seen)]_vars

(***************************************************************************)
(* Properties of the input checks of proposal validation (SpecInputs).     *)
(***************************************************************************)
OriginalInputs == Ctx.original_psbt.global.unsigned_tx.input

ProposalInputs == Proposal.global.unsigned_tx.input

\* The position of the original-input cursor when proposed input i is
\* looked at: one past the number of earlier inputs that matched its head.
RECURSIVE CursorAt(_)
CursorAt(i) ==
    IF i = 1 THEN 1
    ELSE LET j == CursorAt(i - 1) IN
         IF j <= Len(OriginalInputs)
              /\ ProposalInputs[i - 1].previous_output = OriginalInputs[j].previous_output
         THEN j + 1
         ELSE j

\* Proposed input i is matched to an original (sender) input.
IsSenderInput(i) ==
    /\ CursorAt(i) <= Len(OriginalInputs)
    /\ ProposalInputs[i].previous_output = OriginalInputs[CursorAt(i)].previous_output

Fault(broken, name) == IF broken THEN <<name>> ELSE <<>>

\* The key-material rules input i breaks, in the order of the claim.
KeyFaults(i) ==
    Fault(Proposal.inputs[i].bip32_derivation # {}, "TxInContainsKeyPaths")
    \o Fault(Proposal.inputs[i].partial_sigs # {}, "ContainsPartialSigs")

\* The rules for a sender input that input i breaks, in the order of the
\* claim.
SenderFaults(i) ==
    Fault(ProposalInputs[i].sequence # OriginalInputs[CursorAt(i)].sequence,
          "SenderTxinSequenceChanged")
    \o Fault(Proposal.inputs[i].non_witness_utxo # NoneOpt,
             "SenderTxinContainsNonWitnessUtxo")
    \o Fault(Proposal.inputs[i].witness_utxo # NoneOpt, "SenderTxinContainsWitnessUtxo")
    \o Fault(Proposal.inputs[i].final_script_sig # NoneOpt,
             "SenderTxinContainsFinalScriptSig")
    \o Fault(Proposal.inputs[i].final_script_witness # NoneOpt,
             "SenderTxinContainsFinalScriptWitness")

\* The input type of the output that input i of psbt spends.
SpentType(psbt, i) ==
    from_spent_input(previous_txout(psbt.global.unsigned_tx.input[i], psbt.inputs[i]).txout,
                     psbt.inputs[i]).ty

HasUtxo(i) ==
    Proposal.inputs[i].witness_utxo # NoneOpt \/ Proposal.inputs[i].non_witness_utxo # NoneOpt

\* The rules for a receiver input that input i breaks, in the order of the
\* claim; the captured values are those of the original's zeroth input.
ReceiverFaults(i) ==
    Fault(~HasUtxo(i), "ReceiverTxinMissingUtxoInfo")
    \o Fault(ProposalInputs[i].sequence # original.psbt.global.unsigned_tx.input[1].sequence,
             "MixedSequence")
    \o Fault(HasUtxo(i) /\ SpentType(Proposal, i) # SpentType(original.psbt, 1),
             "MixedInputTypes")

InputFaults(i) ==
    KeyFaults(i) \o (IF IsSenderInput(i) THEN SenderFaults(i) ELSE ReceiverFaults(i))

\* Input i is the first input of the proposal that breaks a rule.
FirstFaulty(i) ==
    /\ InputFaults(i) # <<>>
    /\ \A k \in 1..(i - 1) : InputFaults(k) = <<>>

\* The proposal decodes and passes basic_checks.
ReachesInputChecks ==
    /\ Called
    /\ response.decodes
    /\ basic_checks(Ctx, Proposal) = "Ok"

\* C21: every input of an accepted proposal that is matched to an original
\* input has the original's sequence number and none of non_witness_utxo,
\* witness_utxo, final_script_sig, final_script_witness; when the first
\* faulty input is a sender input without key material, the proposal is
\* rejected with the first of SenderTxinSequenceChanged,
\* SenderTxinContainsNonWitnessUtxo, SenderTxinContainsWitnessUtxo,
\* SenderTxinContainsFinalScriptSig, SenderTxinContainsFinalScriptWitness
\* that applies.
C21_SenderInputsUntouched ==
    ReachesInputChecks =>
        \A i \in 1..Len(ProposalInputs) :
            IsSenderInput(i) =>
                /\ Accepted => SenderFaults(i) = <<>>
                /\ (FirstFaulty(i) /\ KeyFaults(i) = <<>>)
                   => outcome.result = Head(SenderFaults(i))

\* A sender input with a changed sequence that also carries funding data
\* and a final script: the sequence error is the one reported.
C21_Witness ==
    /\ ReachesInputChecks
    /\ outcome.result = "SenderTxinSequenceChanged"
    /\ \E i \in 1..Len(ProposalInputs) :
          /\ i > 1
          /\ IsSenderInput(i)
          /\ FirstFaulty(i)
          /\ Len(SenderFaults(i)) = 5

\* C22: every input of an accepted proposal that is not matched to an
\* original input carries a witness_utxo or non_witness_utxo, has the
\* sequence number of the original's zeroth input and spends an output of
\* the input type of the original's zeroth input; when the first faulty
\* input is a receiver input without key material, the proposal is rejected
\* with the first of ReceiverTxinMissingUtxoInfo, MixedSequence,
\* MixedInputTypes that applies.
C22_ReceiverInputsUniform ==
    ReachesInputChecks =>
        \A i \in 1..Len(ProposalInputs) :
            ~IsSenderInput(i) =>
                /\ Accepted => ReceiverFaults(i) = <<>>
                /\ (FirstFaulty(i) /\ KeyFaults(i) = <<>>)
                   => outcome.result = Head(ReceiverFaults(i))

\* A receiver input of another sequence and another input type, after the
\* inputs of an original whose own inputs differ in sequence: MixedSequence
\* is the error reported.
C22_Witness ==
    /\ ReachesInputChecks
    /\ outcome.result = "MixedSequence"
    /\ Len(OriginalInputs) = 2
    /\ OriginalInputs[1].sequence # OriginalInputs[2].sequence
    /\ \E i \in 1..Len(ProposalInputs) :
          /\ i > 2
          /\ ~IsSenderInput(i)
          /\ FirstFaulty(i)
          /\ ReceiverFaults(i) = <<"MixedSequence", "MixedInputTypes">>

\* C23: an accepted proposal has no bip32_derivation entry on any input or
\* output and no partial_sigs entry on any input; when the first faulty
\* input carries key material the proposal is rejected with
\* TxInContainsKeyPaths if it has key paths and with ContainsPartialSigs
\* otherwise, whatever rule of its sender or receiver arm it also breaks;
\* a proposal whose inputs pass and that has an output with key paths is
\* rejected with TxOutContainsKeyPaths.
C23_NoKeyMaterial ==
    ReachesInputChecks =>
        /\ Accepted =>
              /\ \A i \in 1..Len(Proposal.inputs) : KeyFaults(i) = <<>>
              /\ \A o \in 1..Len(Proposal.outputs) :
                    Proposal.outputs[o].bip32_derivation = {}
        /\ \A i \in 1..Len(Proposal.inputs) :
              (FirstFaulty(i) /\ KeyFaults(i) # <<>>)
              => outcome.result = Head(KeyFaults(i))
        /\ (/\ check_inputs(Ctx, Proposal).err = "Ok"
            /\ \E o \in 1..Len(Proposal.outputs) :
                  Proposal.outputs[o].bip32_derivation # {})
           => outcome.result = "TxOutContainsKeyPaths"

\* An input with key paths and partial signatures that also breaks a rule
\* of the sender arm: TxInContainsKeyPaths is the error reported.
C23_Witness ==
    /\ ReachesInputChecks
    /\ outcome.result = "TxInContainsKeyPaths"
    /\ \E i \in 1..Len(ProposalInputs) :
          /\ FirstFaulty(i)
          /\ Len(KeyFaults(i)) = 2
          /\ IsSenderInput(i)
          /\ SenderFaults(i) # <<>>

(***************************************************************************)
(* Properties of the output checks of proposal validation (Spec).          *)
(***************************************************************************)
OriginalOutputs == Ctx.original_psbt.global.unsigned_tx.output

ProposalOutputs == Proposal.global.unsigned_tx.output

\* The stages of process_proposal before the output checks pass.
ReachesOutputChecks ==
    /\ response.decodes
    /\ basic_checks(Ctx, Proposal) = "Ok"
    /\ check_inputs(Ctx, Proposal).err = "Ok"

\* The position (from 1) of the payee output in the original PSBT.
PayeeIndex == CHOOSE i \in 1..Len(OriginalOutputs) : OriginalOutputs[i].script_pubkey = Ctx.payee

\* The proposal has the original's outputs, position by position, except
\* perhaps at position k, and no output carries key paths.
OutputsKeptExceptAt(k) ==
    /\ Len(ProposalOutputs) = Len(OriginalOutputs)
    /\ \A i \in 1..Len(ProposalOutputs) :
          /\ Proposal.outputs[i].bip32_derivation = {}
          /\ i # k => ProposalOutputs[i] = OriginalOutputs[i]

\* C17: with output substitution disabled, a proposal that reaches the
\* output checks and differs from the original only in its payee output,
\* whose script is another or whose value is lower, is rejected with
\* DisallowedOutputSubstitution.
C17_SubstitutionRefused ==
    (/\ Called
     /\ ReachesOutputChecks
     /\ Ctx.disable_output_substitution
     /\ OutputsKeptExceptAt(PayeeIndex)
     /\ \/ ProposalOutputs[PayeeIndex].script_pubkey # OriginalOutputs[PayeeIndex].script_pubkey
        \/ ProposalOutputs[PayeeIndex].value < OriginalOutputs[PayeeIndex].value)
    => outcome.result = "DisallowedOutputSubstitution"

\* C18: a proposal that reaches the output checks and differs from the
\* original only in the fee output, lowered by an amount that is not below
\* max_fee_contribution, is rejected with FeeContributionExceedsMaximum.
C18_ContributionAboveMaximum ==
    (/\ Called
     /\ ReachesOutputChecks
     /\ IsSome(Ctx.fee_contribution))
    => LET f == Unwrap(Ctx.fee_contribution).index + 1 IN
       (/\ OutputsKeptExceptAt(f)
        /\ ProposalOutputs[f].script_pubkey = OriginalOutputs[f].script_pubkey
        /\ ProposalOutputs[f].value < OriginalOutputs[f].value
        /\ OriginalOutputs[f].value - ProposalOutputs[f].value
              >= Unwrap(Ctx.fee_contribution).amount)
       => outcome.result = "FeeContributionExceedsMaximum"

\* C19: an accepted proposal has at least as many outputs as the original,
\* and a proposal that reaches the output checks with only the first
\* outputs of the original, the last ones omitted, is rejected with
\* MissingOrShuffledOutputs.
C19_OutputsPreserved ==
    Called =>
        /\ Accepted => Len(ProposalOutputs) >= Len(OriginalOutputs)
        /\ (/\ ReachesOutputChecks
            /\ Len(ProposalOutputs) < Len(OriginalOutputs)
            /\ \A i \in 1..Len(ProposalOutputs) :
                  /\ Proposal.outputs[i].bip32_derivation = {}
                  /\ ProposalOutputs[i] = OriginalOutputs[i])
           => outcome.result = "MissingOrShuffledOutputs"

\* C20: without a fee contribution, a proposal that reaches the output
\* checks and differs from the original only in an output that is not the
\* payee's, with the same script and a lower value, is rejected with
\* OutputValueDecreased.
C20_OurOutputNotDecreased ==
    (/\ Called
     /\ ReachesOutputChecks
     /\ ~IsSome(Ctx.fee_contribution))
    => \A k \in 1..Len(OriginalOutputs) :
          (/\ k # PayeeIndex
           /\ OutputsKeptExceptAt(k)
           /\ ProposalOutputs[k].script_pubkey = OriginalOutputs[k].script_pubkey
           /\ ProposalOutputs[k].value < OriginalOutputs[k].value)
          => outcome.result = "OutputValueDecreased"

(***************************************************************************)
(* Properties of UncheckedProposal::check (SpecCheck).                     *)
(***************************************************************************)
Resolvable(i) ==
    previous_txout(unchecked.psbt.global.unsigned_tx.input[i], unchecked.psbt.inputs[i]).ok

\* C12: check returns a Proposal exactly when unbroacastable answered false
\* and every input has a resolvable funding output, owned answered false
\* for it and already_seen answered false for it; the Proposal holds the
\* PSBT that was checked; and each ChecksError is returned only when its
\* check failed: TxUnbroadcastable exactly when unbroacastable answered
\* true, MissingPrevout, TxinOwned and TxinAlreadySeen only for an input
\* whose funding output is missing, that is owned, that was seen.
C12_CheckGatesProposal ==
    checked.result \notin {None, "Idle"} =>
        LET ins == 1..Len(unchecked.psbt.inputs) IN
        /\ checked.result = "Ok"
             <=> (/\ ~unchecked.unbroacastable
                  /\ \A i \in ins : /\ Resolvable(i)
                                     /\ ~unchecked.owned[i]
                                     /\ ~unchecked.already_seen[i])
        /\ checked.result = "Ok" => checked.psbt = unchecked.psbt
        /\ checked.result = "TxUnbroadcastable" <=> unchecked.unbroacastable
        /\ checked.result = "MissingPrevout" => \E i \in ins : ~Resolvable(i)
        /\ checked.result = "TxinOwned" => \E i \in ins : Resolvable(i) /\ unchecked.owned[i]
        /\ checked.result = "TxinAlreadySeen"
             => \E i \in ins : Resolvable(i) /\ ~unchecked.owned[i] /\ unchecked.already_seen[i]
        /\ checked.result \in {"Ok", "TxUnbroadcastable", "MissingPrevout", "TxinOwned",
                                "TxinAlreadySeen"}

\* A proposal refused because its second input had been seen, the first
\* input having passed every check.
C12_Witness ==
    /\ checked.result = "TxinAlreadySeen"
    /\ Len(unchecked.psbt.inputs) = 2
    /\ ~unchecked.already_seen[1]
    /\ unchecked.already_seen[2]

(***************************************************************************)
(* Properties of Uri::try_from (SpecUri).                                  *)
(***************************************************************************)
\* sub occurs in s.
Contains(s, sub) ==
    \E i \in 1..(Len(s) - Len(sub) + 1) : SubSeq(s, i, i + Len(sub) - 1) = sub

\* The query of the URI text has the parameter kv: kv stands between "?" or
\* "&" and the next "&" or the end of the text.
Carries(kv) ==
    \/ Contains(uriStr \o <<"&">>, <<"?">> \o kv \o <<"&">>)
    \/ Contains(uriStr \o <<"&">>, <<"&">> \o kv \o <<"&">>)

\* C15: a URI that parses has output substitution disabled exactly when it
\* carries pjos=0 (with pjos=1 or without pjos it is enabled); a URI with
\* another pjos value does not parse; the endpoint of a URI that parses is
\* the value of its pj parameter and begins with http:// or https://, and
\* a URI whose pj value begins otherwise does not parse.
C15_PjosAndEndpoint ==
    uriResult.result \notin {None, "Idle"} =>
        /\ uriResult.result = "Ok" =>
             /\ uriResult.disable_output_substitution <=> Carries(<<"p", "j", "o", "s", "=", "0">>)
             /\ \/ uriResult.endpoint = <<"h", "t", "t", "p", "s", ":", "/", "/", "e">> /\ Carries(<<"p", "j", "=", "h", "t", "t", "p", "s", ":", "/", "/", "e">>)
                \/ uriResult.endpoint = <<"h", "t", "t", "p", ":", "/", "/", "e">> /\ Carries(<<"p", "j", "=", "h", "t", "t", "p", ":", "/", "/", "e">>)
        /\ Carries(<<"p", "j", "o", "s", "=", "2">>) => uriResult.result # "Ok"
        /\ Carries(<<"p", "j", "=", "f", "t", "p", ":", "/", "/", "e">>) => uriResult.result # "Ok"

\* A URI with an upper-case scheme and pjos=0 after the endpoint, parsed
\* with substitution disabled.
C15_Witness ==
    /\ uriResult.result = "Ok"
    /\ uriResult.disable_output_substitution
    /\ uriResult.amount = 3000
    /\ uriStr[1] = "B"

UriParsed == uriResult.result \notin {None, "Idle"}

\* The text begins with "bitcoin:" in any mix of cases.
GoodScheme ==
    /\ Len(uriStr) >= 8
    /\ [i \in 1..8 |-> to_ascii_lowercase(uriStr[i])] = PrefixBitcoin

HasQuery == Contains(uriStr, <<"?">>)

\* The text between the scheme and the query is not an address.
InvalidAddress ==
    LET last == IF HasQuery THEN Find(uriStr, "?") - 1 ELSE Len(uriStr)
    IN  SubSeq(uriStr, 9, last) # <<"a", "d", "d", "r">>

\* Where in the text a parameter whose key is prefix begins.
Occurrences(prefix) ==
    {i \in 1..Len(uriStr) :
        /\ uriStr[i] \in {"?", "&"}
        /\ StartsWith(SubSeq(uriStr, i + 1, Len(uriStr)), prefix)}

Present(prefix) == Occurrences(prefix) # {}

InvalidAmount == Carries(<<"a", "m", "o", "u", "n", "t", "=", "x">>)

\* No parameter has a value that is refused and no key is given twice.
CleanParams ==
    /\ ~InvalidAmount
    /\ ~Carries(<<"p", "j", "o", "s", "=", "2">>)
    /\ ~Carries(<<"p", "j", "=", "f", "t", "p", ":", "/", "/", "e">>)
    /\ \A prefix \in {PrefixAmount, PrefixPjos, PrefixPj} :
          Cardinality(Occurrences(prefix)) <= 1

MissingErrors ==
    {"PjNotPresent", "MissingAmount", "MissingAmountAndEndpoint", "MissingEndpoint"}

\* What the URI lacks decides the error: another scheme is BadSchema; no
\* query is PjNotPresent; with a valid address and clean parameters,
\* neither pj nor pjos is PjNotPresent, pj without amount MissingAmount,
\* pjos alone MissingAmountAndEndpoint, amount and pjos without pj
\* MissingEndpoint; an invalid amount is never answered with a
\* missing-parameter error, and is reported as such when it is the only
\* refused value.
IncompleteClassified ==
    /\ ~GoodScheme => uriResult.result = "Bip21BadSchema"
    /\ (GoodScheme /\ ~HasQuery) => uriResult.result = "PjNotPresent"
    /\ (GoodScheme /\ HasQuery /\ ~InvalidAddress /\ CleanParams) =>
          LET amount == Present(PrefixAmount)
              pj == Present(PrefixPj)
              pjos == Present(PrefixPjos)
          IN  /\ (~pj /\ ~pjos) => uriResult.result = "PjNotPresent"
              /\ (pj /\ ~amount) => uriResult.result = "MissingAmount"
              /\ (pjos /\ ~amount /\ ~pj) => uriResult.result = "MissingAmountAndEndpoint"
              /\ (amount /\ pjos /\ ~pj) => uriResult.result = "MissingEndpoint"
              /\ (amount /\ pj) => uriResult.result = "Ok"
    /\ (GoodScheme /\ HasQuery /\ ~InvalidAddress /\ InvalidAmount) =>
          /\ uriResult.result \notin MissingErrors \cup {"Ok"}
          /\ (/\ ~Carries(<<"p", "j", "o", "s", "=", "2">>)
              /\ ~Carries(<<"p", "j", "=", "f", "t", "p", ":", "/", "/", "e">>)
              /\ Cardinality(Occurrences(PrefixAmount)) <= 1
              /\ Cardinality(Occurrences(PrefixPjos)) <= 1
              /\ Cardinality(Occurrences(PrefixPj)) <= 1)
             => uriResult.result = "Amount"

\* C32 as stated: incomplete URIs are classified by what is missing, and
\* an invalid address is reported as such before any missing-parameter
\* error, PjNotPresent included.
C32_InvalidBeforeMissing ==
    UriParsed =>
        /\ IncompleteClassified
        /\ (GoodScheme /\ InvalidAddress) => uriResult.result = "Address"

\* C32: incomplete URIs are classified by what is missing, and an invalid
\* address in a URI that has a query part is reported as such whatever its
\* parameters are; without a query part the answer is PjNotPresent
\* whatever the address is.
C32_IncompleteClassified ==
    UriParsed =>
        /\ IncompleteClassified
        /\ (GoodScheme /\ HasQuery /\ InvalidAddress) => uriResult.result = "Address"

\* An invalid address before a query that lacks pj and pjos.
C32_Witness ==
    /\ uriResult.result = "Address"
    /\ HasQuery
    /\ ~Present(PrefixPj)
    /\ ~Present(PrefixPjos)

=============================================================================
